---- MODULE Spec2Model ----
(***************************************************************************)
(* Persistence core of doc_crawler: the processing queue and the crawl     *)
(* session store, on top of the shared storage wrapper                     *)
(* (AsyncMongoDBRepository).  A datetime is a natural number (clock        *)
(* ticks); an ObjectId is a natural number, allocated in increasing order. *)
(***************************************************************************)
EXTENDS Integers, Sequences, FiniteSets, TLC

\* ------------------------------------------------------------ bounds
MaxTasks == 2
MaxTime == 1
MaxInFlight == 1
MaxSessions == 3
MaxStarts == 2
MaxAlerts == 2
MaxHours == 2
MaxChanges == 2
MaxBreakerTime == 120
MaxFailures == 7
MaxDepth == 3
MaxPageVersion == 2
MaxDocs == 5
MaxRuns == 2
\* batch_size of archive_old_documents, 1000 in the program, scaled down
batch_size == 2
MaxCallbacks == 2
\* pages ever inserted
MaxPages == 3
\* content-index entries ever inserted
MaxEntries == 3
\* the highest version of a registered migration
MaxVersion == 3
\* writes of the watched file, and the half seconds the watcher is followed
MaxWrites == 3
MaxWatchTime == 10

\* ------------------------------------------------------------ values
\* Python None in a datetime field
NoTime == -1
\* Python None in a string field
NoStr == "none"

TaskIds == 1..MaxTasks
Times == 0..MaxTime
Statuses == {"pending", "processing", "completed", "failed"}
\* priority: int, 1..5 in the schema; the model draws from two of them
Priorities == {3, 5}
TaskTypes == {"content_analysis", "text_cleaning"}
MaxRetriesChoices == {1}
Workers == {"w1", "w2"}

\* An empty slot of a collection
Absent == [status |-> "absent"]
\* Concurrent callers (coroutines) of the alert store and of the wrapper
Callers == {"a", "b"}

AlertIds == 1..MaxAlerts
AlertTypes == {"crawl_failure", "db_error"}
\* A caller that is not inside create_alert
NoCreate == [phase |-> "idle"]

ChangeIds == 1..MaxChanges

\* CircuitBreaker.__init__
NewBreaker == [state |-> "closed", failure_count |-> 0, success_count |-> 0,
               last_failure_time |-> NoTime]
\* A caller that is not inside _with_retry
NoAttempt == [phase |-> "idle"]

\* A value inside a query or update document: a scalar, or a nested dict.
Val(x) == [t |-> "v", v |-> x]
Dict(f) == [t |-> "d", d |-> f]
List(s) == [t |-> "l", l |-> s]

\* _convert_object_ids: what find_one and find_many return has every
\* ObjectId, the _id included, turned into its str
_convert_object_ids(id) == [t |-> "str", v |-> id]

\* key.startswith('$'): the operator keys the repositories build
OperatorKeys == {"$set", "$in", "$lte", "$lt", "$gt", "$gte", "$inc", "$or",
                 "$exists"}
StartsWithDollar(key) == key \in OperatorKeys

\* _sanitize_input, the loop over the items of a dict: drops every '$'
\* key, recurses into a value that is a dict and into the elements of a
\* value that is a list when the element is a dict; any other element and
\* any other value is kept as it is
RECURSIVE _sanitize_input(_)
_sanitize_input(data) ==
    [key \in {k \in DOMAIN data : ~StartsWithDollar(k)} |->
        IF data[key].t = "d"
        THEN Dict(_sanitize_input(data[key].d))
        ELSE IF data[key].t = "l"
        THEN List([i \in DOMAIN data[key].l |->
                     IF data[key].l[i].t = "d"
                     THEN Dict(_sanitize_input(data[key].l[i].d))
                     ELSE data[key].l[i]])
        ELSE data[key]]

\* How the storage backend matches one field against a query condition:
\* a scalar is compared for equality, an operator dict applies its
\* operators, and a dict without operators (such as {}) is compared as an
\* embedded document, which no scalar field equals.
\* A field that holds None or is missing (NoTime, NoStr) satisfies no
\* comparison operator; a str never equals the ObjectId of an _id.
MatchCond(x, cond) ==
    IF cond.t = "v" THEN x = cond.v
    ELSE IF cond.t = "str" THEN FALSE
    ELSE /\ DOMAIN cond.d # {}
         /\ \A op \in DOMAIN cond.d :
              CASE op = "$in" -> x \in cond.d[op].v
                [] op = "$lte" -> x # NoTime /\ x <= cond.d[op].v
                [] op = "$lt" -> x # NoTime /\ x < cond.d[op].v
                [] op = "$gt" -> x # NoTime /\ x > cond.d[op].v
                [] op = "$exists" -> (x # NoTime) = cond.d[op].v
                [] OTHER -> FALSE

Matches(id, doc, query) ==
    \A key \in DOMAIN query :
        IF key = "_id" THEN MatchCond(id, query[key])
        ELSE MatchCond(doc[key], query[key])

\* The backend's {"$set": fields} on one document
ApplySet(doc, fields) ==
    [key \in DOMAIN doc |->
        IF key \in DOMAIN fields
        THEN (IF fields[key].t = "v" THEN fields[key].v ELSE fields[key].d)
        ELSE doc[key]]

\* A collection maps ids to documents; an empty slot has status "absent".
MatchingIds(coll, query) ==
    {id \in DOMAIN coll :
        coll[id] # Absent /\ Matches(id, coll[id], query)}

MinOf(S) == CHOOSE x \in S : \A y \in S : x <= y
MaxOf(S) == CHOOSE x \in S : \A y \in S : x >= y

\* collection.update_one(query, {"$set": fields}): the first match only
BackendUpdateOne(coll, query, fields) ==
    LET ids == MatchingIds(coll, query)
        id == MinOf(ids)
        new == ApplySet(coll[id], fields)
    IN  IF ids = {} THEN [coll |-> coll, modified_count |-> 0]
        ELSE [coll |-> [coll EXCEPT ![id] = new],
              modified_count |-> IF new = coll[id] THEN 0 ELSE 1]

\* collection.update_many(query, {"$set": fields})
BackendUpdateMany(coll, query, fields) ==
    LET ids == MatchingIds(coll, query)
        new == [id \in DOMAIN coll |->
                  IF id \in ids THEN ApplySet(coll[id], fields) ELSE coll[id]]
    IN  [coll |-> new,
         modified_count |-> Cardinality({id \in ids : new[id] # coll[id]})]

\* What the wrapper hands to the backend as the $set fields: the caller's
\* update document, sanitized, with updated_at added.
WrappedUpdate(update_data, t) ==
    LET clean == _sanitize_input(update_data)
    IN  [key \in DOMAIN clean \cup {"updated_at"} |->
            IF key = "updated_at" THEN Val(t) ELSE clean[key]]

\* Mutant of update_one: the caller's filter and its {"$set": fields}
\* reach the backend as built, and the driver's UpdateResult is returned.
update_one_unwrapped(coll, query, update_data, t) ==
    LET r == BackendUpdateOne(coll, query,
                 update_data["$set"].d @@ [updated_at |-> Val(t)])
    IN  [coll |-> r.coll,
         ret |-> [type |-> "UpdateResult",
                  modified_count |-> r.modified_count]]

\* AsyncMongoDBRepository.update_one (upsert=False): returns a bool
update_one(coll, query, update_data, t) ==
    LET r == BackendUpdateOne(coll, _sanitize_input(query),
                              WrappedUpdate(update_data, t))
    IN  [coll |-> r.coll,
         ret |-> [type |-> "bool", value |-> r.modified_count > 0]]

\* timedelta(hours=h), in seconds
timedelta_hours(h) == h * 3600

\* AsyncMongoDBRepository.update_many: returns an int
update_many(coll, query, update_data, t) ==
    LET r == BackendUpdateMany(coll, _sanitize_input(query),
                               WrappedUpdate(update_data, t))
    IN  [coll |-> r.coll,
         ret |-> [type |-> "int", value |-> r.modified_count]]

\* AsyncMongoDBRepository.delete_many: the sanitized filter goes to
\* collection.delete_many, and the deleted count is returned as an int
delete_many(coll, query) ==
    LET ids == MatchingIds(coll, _sanitize_input(query))
    IN  [coll |-> [id \in DOMAIN coll |->
                      IF id \in ids THEN [status |-> "absent"] ELSE coll[id]],
         ret |-> [type |-> "int", value |-> Cardinality(ids)]]

\* AsyncMongoDBRepository.find_many: the matching documents
find_many(coll, query) == MatchingIds(coll, _sanitize_input(query))

\* AsyncMongoDBRepository.find_one by id: the document, or None
find_one(coll, query) ==
    LET ids == MatchingIds(coll, _sanitize_input(query))
    IN  IF ids = {} THEN 0 ELSE MinOf(ids)

\* result.modified_count: only a driver UpdateResult has the attribute;
\* on a bool or an int the access raises AttributeError.
HasModifiedCount(result) == result.type = "UpdateResult"

\* ------------------------------------------------------------ state
VARIABLES
    now,        \* datetime.now(UTC)
    tasks,      \* the processing_queue collection: id -> document
    failCalls,  \* fail_task calls between their find_one and their update_one
    epochLeases,\* per task: dequeues that returned it since it last was not processing
    last,       \* the step just taken on the queue: operation, arguments, return value
    sessions,   \* the crawl_sessions collection: id -> document
    startCalls, \* start_crawl_session calls between their count and their insert
    progressCalls, \* update_session_progress calls between find_one and update_one
    completeCalls, \* complete_crawl_session calls between find_one and update_one
    siteLastCrawl, \* per site: monitoring.last_crawl_time
    slast,      \* the step just taken on the session store
    alerts,     \* the alerts collection: id -> document
    suppressions, \* the alert_suppressions collection: alert_type -> suppressed_until
    createCalls, \* per caller: its create_alert call, between awaits
    alast,      \* the step just taken on the alert store
    changes,    \* the content_changes collection: id -> document
    clast,      \* the step just taken on the content-change store
    breaker,    \* the CircuitBreaker object's fields
    calls,      \* per caller: its _with_retry call, between awaits
    streak,     \* invocations that failed since the last one that succeeded
    openedAt,   \* when the breaker last went from another state to open
    halfOpenSuccesses, \* successes recorded since the breaker last became half-open
    sanIn, \* the argument of the _sanitize_input call just made
    sanOut, \* what that call returned or raised
    pageDocs, \* the pages collection: page id -> document
    queueDocs, \* the processing_queue collection as update_page_and_clear_task sees it
    tlast, \* the update_page_and_clear_task call just made
    archDocs, \* the collection being archived: id -> old enough, recent or removed
    s3objects, \* the archive objects put in the bucket: key and documents
    archive, \* the archive_old_documents run: where it is and what it has done
    dry_run, \* RetentionPolicyManager.dry_run
    configFile, \* what the configuration files hold: a value, and whether it loads and validates
    _config, \* ConfigurationManager._config, the live configuration
    environment, \* _config.environment
    _change_callbacks, \* ConfigurationManager._change_callbacks, in registration order
    reloads, \* per caller: its reload_configuration call while it awaits validation
    mlast, \* the step just taken on the configuration manager
    pageColl, \* the pages collection, in insertion order
    pageCreates, \* per caller: its create_page call between find_one and insert_one
    site_url_unique, \* whether the collection carries a unique index on (site_id, url)
    plast, \* the step just taken on the page store
    indexColl, \* the content_index collection, in insertion order
    upserts, \* per caller: its upsert_content_index call after get_by_page_id
    ilast, \* the step just taken on the content index
    ledger, \* the versions in schema_migrations
    schema, \* the versions whose up step is in effect in the database
    runs, \* per caller: its run_migrations call between migrations
    glast, \* the step just taken by the migration manager
    last_reload, \* ConfigurationChangeHandler.last_reload of the watched file
    _reload_scheduled, \* ConfigurationManager._reload_scheduled
    reloadDue, \* when the delayed_reload thread wakes
    changeTasks, \* the wake times of the _handle_config_change tasks under way
    writes, \* how often the watched file has been written
    wlast, \* the step just taken by the file watcher
    blast       \* the step just taken on the breaker

queueVars == <<tasks, failCalls, epochLeases, last>>
sessionVars == <<sessions, startCalls, progressCalls, completeCalls,
                 siteLastCrawl, slast>>
alertVars == <<alerts, suppressions, createCalls, alast>>
changeVars == <<changes, clast>>
breakerVars == <<breaker, calls, streak, openedAt, halfOpenSuccesses, blast>>
sanitizeVars == <<sanIn, sanOut>>
txVars == <<pageDocs, queueDocs, tlast>>
archiveVars == <<archDocs, s3objects, archive, dry_run>>
configVars == <<configFile, _config, environment, _change_callbacks, reloads,
                mlast>>
pagesVars == <<pageColl, pageCreates, site_url_unique, plast>>
indexVars == <<indexColl, upserts, ilast>>
migrationVars == <<ledger, schema, runs, glast>>
watchVars == <<last_reload, _reload_scheduled, reloadDue, changeTasks, writes, wlast>>
moreVars == <<pagesVars, indexVars, migrationVars, watchVars>>
laterVars == <<sanitizeVars, txVars, archiveVars, configVars, moreVars>>
\* everything declared before the page store
oldVars == <<now, queueVars, sessionVars, alertVars, changeVars, breakerVars,
             sanitizeVars, txVars, archiveVars, configVars>>
\* what the page store leaves alone, and what each later store does
notPages == <<oldVars, indexVars, migrationVars, watchVars>>
notIndex == <<oldVars, pagesVars, migrationVars, watchVars>>
notMigrations == <<oldVars, pagesVars, indexVars, watchVars>>
notWatch == <<queueVars, sessionVars, alertVars, changeVars, breakerVars,
              sanitizeVars, txVars, archiveVars, pagesVars, indexVars,
              migrationVars>>
\* what neither the queue nor the session store touches
otherVars == <<alertVars, changeVars, breakerVars, laterVars>>
vars == <<now, tasks, failCalls, epochLeases, last,
          sessions, startCalls, progressCalls, completeCalls,
          siteLastCrawl, slast,
          alerts, suppressions, createCalls, alast,
          changes, clast, breaker, calls, streak, openedAt,
          halfOpenSuccesses, sanIn, sanOut,
          pageDocs, queueDocs, tlast,
          archDocs, s3objects, archive, dry_run,
          configFile, _config, environment, _change_callbacks, reloads, mlast,
          pageColl, pageCreates, site_url_unique, plast,
          indexColl, upserts, ilast,
          ledger, schema, runs, glast,
          last_reload, _reload_scheduled, reloadDue, changeTasks, writes, wlast,
          blast>>

\* An empty slot of the collection
NoTask == [status |-> "absent"]

\* Mutant of TaskDoc: the document is written with one retry more than it
\* may have.
TaskDocRetriedOver(type, prio, created, sched, rc, mr, st, deps) ==
    [task_type |-> type, priority |-> prio, status |-> st,
     created_at |-> created, scheduled_at |-> sched,
     retry_count |-> mr + 1, max_retries |-> mr, dependencies |-> deps,
     started_at |-> NoTime, completed_at |-> NoTime, failed_at |-> NoTime,
     worker_id |-> NoStr, error_message |-> NoStr, result |-> NoStr,
     last_update |-> NoTime, updated_at |-> created]

TaskDoc(type, prio, created, sched, rc, mr, st, deps) ==
    [task_type |-> type, priority |-> prio, status |-> st,
     created_at |-> created, scheduled_at |-> sched,
     retry_count |-> rc, max_retries |-> mr, dependencies |-> deps,
     started_at |-> NoTime, completed_at |-> NoTime, failed_at |-> NoTime,
     worker_id |-> NoStr, error_message |-> NoStr, result |-> NoStr,
     last_update |-> NoTime, updated_at |-> created]

Present(id) == tasks[id] # NoTask

NoCall == [op |-> "none"]

\* Documents the collection may hold when the repository is constructed.
\* The collection outlives the process and its schema (ProcessingTask)
\* admits every status and a dependencies list: a task completed earlier,
\* a task that failed for good after its retries, and a pending task that
\* depends on another task.
SeedTasks ==
    {[TaskDoc("content_analysis", 5, 0, 0, 0, 1, "completed", {})
         EXCEPT !.completed_at = 0],
     TaskDoc("content_analysis", 5, 0, 0, 2, 1, "failed", {}),
     TaskDoc("content_analysis", 5, 0, 0, 0, 1, "pending", {2})}

InitQueue ==
    /\ now = 0
    /\ \E d \in SeedTasks \cup {NoTask} :
         tasks = [id \in TaskIds |-> IF id = 1 THEN d ELSE NoTask]
    /\ failCalls = {}
    /\ epochLeases = [id \in TaskIds |-> 0]
    /\ last = NoCall
    /\ sessions = [id \in 1..MaxSessions |-> [status |-> "absent"]]
    /\ startCalls = [site \in {1, 2} |-> 0]
    /\ progressCalls = {}
    /\ completeCalls = {}
    /\ siteLastCrawl = [site \in {1, 2} |-> NoTime]
    /\ slast = NoCall
    /\ alerts = [id \in AlertIds |-> Absent]
    /\ suppressions = [type \in AlertTypes |-> NoTime]
    /\ createCalls = [c \in Callers |-> NoCreate]
    /\ alast = NoCall
    /\ changes = [id \in ChangeIds |-> Absent]
    /\ clast = NoCall
    /\ breaker = NewBreaker
    /\ calls = [c \in Callers |-> NoAttempt]
    /\ streak = 0
    /\ openedAt = NoTime
    /\ halfOpenSuccesses = 0
    /\ last_reload = NoTime
    /\ _reload_scheduled = FALSE
    /\ reloadDue = NoTime
    /\ changeTasks = {}
    /\ writes = 0
    /\ wlast = [op |-> "none"]
    /\ ledger = {}
    /\ schema = {}
    /\ runs = [c \in Callers |-> [phase |-> "idle"]]
    /\ glast = [op |-> "none"]
    /\ indexColl = <<>>
    /\ upserts = [c \in Callers |-> [phase |-> "idle"]]
    /\ ilast = [op |-> "none"]
    /\ pageColl = <<>>
    /\ pageCreates = [c \in Callers |-> [phase |-> "idle"]]
    /\ site_url_unique = FALSE
    /\ plast = [op |-> "none"]
    /\ configFile = [value |-> 1, state |-> "ok"]
    /\ _config = 1
    /\ environment = "dev"
    /\ _change_callbacks = <<>>
    /\ reloads = [c \in Callers |-> [phase |-> "idle"]]
    /\ mlast = [op |-> "none"]
    /\ archDocs = [d \in 1..MaxDocs |-> "absent"]
    /\ s3objects = {}
    /\ archive = [phase |-> "idle"]
    /\ dry_run = FALSE
    /\ pageDocs = [p \in {1, 2} |-> [status |-> "absent"]]
    /\ queueDocs = [i \in {1, 2} |-> [status |-> "absent"]]
    /\ tlast = [op |-> "none"]
    /\ sanIn = [t |-> "none"]
    /\ sanOut = [called |-> FALSE]
    /\ blast = NoCall

Tick ==
    /\ now < MaxTime
    /\ now' = now + 1
    /\ last' = [op |-> "tick"]
    /\ slast' = [op |-> "tick"]
    /\ UNCHANGED <<tasks, failCalls, epochLeases, sessions, startCalls,
                   progressCalls, completeCalls, siteLastCrawl, otherVars>>
\* Bookkeeping after a write: a task that is not processing has no lease;
\* a task returned by this dequeue has one more.
NextEpoch(newTasks, returned) ==
    [id \in TaskIds |->
        IF newTasks[id].status # "processing" THEN 0
        ELSE epochLeases[id] + (IF id = returned THEN 1 ELSE 0)]

\* _calculate_next_retry_delay (base_delay = 60)
_calculate_next_retry_delay(retry_count) ==
    LET delay_seconds == 60 * (2 ^ retry_count)
    IN  IF delay_seconds < 3600 THEN delay_seconds ELSE 3600

\* The id the backend gives an inserted document
NextTaskId ==
    LET present == {id \in TaskIds : Present(id)}
    IN  IF present = {} THEN 1 ELSE MaxOf(present) + 1

\* enqueue_task: validates the task, then insert_one (which stamps
\* created_at and updated_at).  A missing task_type or an unserializable
\* payload raises before the insert.
enqueue_task(type, prio, sched, mr, payloadOk) ==
    /\ NextTaskId \in TaskIds
    /\ IF type = NoStr \/ ~payloadOk
       THEN /\ tasks' = tasks
            /\ last' = [op |-> "enqueue_task", ret |-> 0]
       ELSE /\ tasks' = [tasks EXCEPT ![NextTaskId] =
                  TaskDoc(type, prio, now,
                          IF sched = NoTime THEN now ELSE sched,
                          0, mr, "pending", {})]
            /\ last' = [op |-> "enqueue_task", ret |-> NextTaskId]
    /\ epochLeases' = NextEpoch(tasks', 0)
    /\ UNCHANGED <<now, failCalls, sessionVars, otherVars>>

\* Mutant of DequeueQuery: the status condition is missing.
DequeueQueryAnyStatus(type, t) ==
    LET base == "scheduled_at" :> Dict("$lte" :> Val(t))
    IN  IF type = NoStr THEN base
        ELSE base @@ ("task_type" :> Val(type))

\* dequeue_next_task: the filter of the find_one_and_update
DequeueQuery(type, t) ==
    LET base == ("status" :> Val("pending")) @@
                ("scheduled_at" :> Dict("$lte" :> Val(t)))
    IN  IF type = NoStr THEN base
        ELSE base @@ ("task_type" :> Val(type))

\* Mutant of SortsBefore: priority ascending.
SortsBeforeAscending(a, b) ==
    \/ a.priority < b.priority
    \/ a.priority = b.priority /\ a.created_at < b.created_at

\* sort = [("priority", DESCENDING), ("created_at", ASCENDING)]
SortsBefore(a, b) ==
    \/ a.priority > b.priority
    \/ a.priority = b.priority /\ a.created_at < b.created_at

\* The documents a sorted find may return first: no match sorts before them
\* (the backend's order among equal sort keys is unspecified).
FirstInSort(ids) ==
    {id \in ids : \A o \in ids : ~SortsBefore(tasks[o], tasks[id])}

\* dequeue_next_task: one atomic find_one_and_update on the collection
\* itself (not through the wrapper).
dequeue_next_task(type) ==
    LET ids == MatchingIds(tasks, DequeueQuery(type, now))
    IN  /\ IF ids = {}
           THEN /\ tasks' = tasks
                /\ last' = [op |-> "dequeue_next_task", ret |-> 0]
           ELSE \E id \in FirstInSort(ids) :
                /\ tasks' = [tasks EXCEPT ![id] = ApplySet(tasks[id],
                       [status |-> Val("processing"), started_at |-> Val(now),
                        last_update |-> Val(now)])]
                /\ last' = [op |-> "dequeue_next_task", ret |-> id]
        /\ epochLeases' = NextEpoch(tasks', last'.ret)
        /\ UNCHANGED <<now, failCalls, sessionVars, otherVars>>

\* mark_task_processing
mark_task_processing(id, worker) ==
    LET r == update_one(tasks,
                 ("_id" :> Val(id)) @@ ("status" :> Val("processing")),
                 "$set" :> Dict([worker_id |-> Val(worker),
                                 last_update |-> Val(now)]),
                 now)
    IN  /\ tasks' = r.coll
        /\ last' = [op |-> "mark_task_processing", id |-> id,
                    ret |-> IF HasModifiedCount(r.ret)
                            THEN r.ret.modified_count > 0 ELSE FALSE]
        /\ epochLeases' = NextEpoch(tasks', 0)
        /\ UNCHANGED <<now, failCalls, sessionVars, otherVars>>

\* complete_task
complete_task(id, result) ==
    LET r == update_one(tasks,
                 ("_id" :> Val(id)) @@ ("status" :> Val("processing")),
                 "$set" :> Dict([status |-> Val("completed"),
                                 completed_at |-> Val(now),
                                 result |-> Val(result),
                                 last_update |-> Val(now)]),
                 now)
    IN  /\ tasks' = r.coll
        /\ last' = [op |-> "complete_task", id |-> id,
                    ret |-> IF HasModifiedCount(r.ret)
                            THEN r.ret.modified_count > 0 ELSE FALSE]
        /\ epochLeases' = NextEpoch(tasks', 0)
        /\ UNCHANGED <<now, failCalls, sessionVars, otherVars>>

\* fail_task, first await: find_one reads retry_count and max_retries
fail_task_find(id, retry) ==
    LET found == find_one(tasks, "_id" :> Val(id))
    IN  IF found = 0
        THEN /\ last' = [op |-> "fail_task", id |-> id, ret |-> FALSE]
             /\ UNCHANGED <<now, tasks, failCalls, epochLeases, sessionVars, otherVars>>
        ELSE /\ Cardinality(failCalls) < MaxInFlight
             /\ failCalls' = failCalls \cup
                   {[id |-> id, retry |-> retry,
                     retry_count |-> tasks[id].retry_count,
                     max_retries |-> tasks[id].max_retries]}
             /\ last' = [op |-> "fail_task_find", id |-> id]
             /\ UNCHANGED <<now, tasks, epochLeases, sessionVars, otherVars>>

\* fail_task: the update document it builds from what it read
FailUpdate(c, t) ==
    LET common == [error_message |-> Val("error"), last_update |-> Val(t),
                   retry_count |-> Val(c.retry_count + 1)]
        should_retry == c.retry /\ c.retry_count < c.max_retries
    IN  IF should_retry
        THEN common @@
             [status |-> Val("pending"),
              scheduled_at |-> Val(t + _calculate_next_retry_delay(c.retry_count)),
              worker_id |-> Val(NoStr), started_at |-> Val(NoTime)]
        ELSE common @@ [status |-> Val("failed"), failed_at |-> Val(t)]

\* fail_task, second await: update_one, filtered by _id only
fail_task_update(c) ==
    LET r == update_one(tasks, "_id" :> Val(c.id),
                        "$set" :> Dict(FailUpdate(c, now)), now)
    IN  /\ c \in failCalls
        /\ failCalls' = failCalls \ {c}
        /\ tasks' = r.coll
        /\ last' = [op |-> "fail_task", id |-> c.id,
                    ret |-> IF HasModifiedCount(r.ret)
                            THEN r.ret.modified_count > 0 ELSE FALSE]
        /\ epochLeases' = NextEpoch(tasks', 0)
        /\ UNCHANGED <<now, sessionVars, otherVars>>

\* retry_failed_tasks
retry_failed_tasks(task_ids) ==
    LET r == update_many(tasks,
                 ("_id" :> Dict("$in" :> Val(task_ids))) @@
                 ("status" :> Val("failed")),
                 "$set" :> Dict([status |-> Val("pending"),
                                 scheduled_at |-> Val(now),
                                 worker_id |-> Val(NoStr),
                                 started_at |-> Val(NoTime),
                                 error_message |-> Val(NoStr),
                                 retry_count |-> Val(0),
                                 last_update |-> Val(now)]),
                 now)
    IN  /\ tasks' = r.coll
        /\ last' = [op |-> "retry_failed_tasks",
                    ret |-> IF HasModifiedCount(r.ret)
                            THEN r.ret.modified_count ELSE 0]
        /\ epochLeases' = NextEpoch(tasks', 0)
        /\ UNCHANGED <<now, failCalls, sessionVars, otherVars>>

\* ------------------------------------------------------------ sessions
SessionIds == 1..MaxSessions
Sites == {1, 2}
\* A site id that names no site
NoSite == Cardinality(Sites) + 1
SessionStatuses == {"running", "completed", "aborted", "failed"}
TerminalStatuses == {"completed", "aborted", "failed"}
\* config.get('max_concurrent_sessions', 1): callers of site 1 leave the
\* key out (the default, 1), callers of site 2 pass 2.
CapOf == [site \in Sites |-> site]
\* CrawlStats arguments: all five counters
StatsChoices == {1}

NoSession == [status |-> "absent"]

CounterKeys == {"stats.pages_discovered", "stats.pages_crawled",
                "stats.pages_failed", "stats.bytes_downloaded",
                "stats.errors_count"}

SessionDoc(site, st, started) ==
    [key \in CounterKeys |-> 0] @@
    [site_id |-> site, status |-> st, started_at |-> started,
     completed_at |-> NoTime, abort_reason |-> NoStr,
     last_update |-> started, updated_at |-> started]

\* Sessions the collection may hold when the repository is constructed:
\* sessions that ended earlier.
SeedSessions == {SessionDoc(1, st, 0) : st \in TerminalStatuses}

InitSessions ==
    /\ now = 0
    /\ tasks = [id \in TaskIds |-> NoTask]
    /\ failCalls = {}
    /\ epochLeases = [id \in TaskIds |-> 0]
    /\ last = NoCall
    /\ \E d \in SeedSessions \cup {NoSession} :
         sessions = [id \in SessionIds |-> IF id = 1 THEN d ELSE NoSession]
    /\ startCalls = [site \in Sites |-> 0]
    /\ progressCalls = {}
    /\ completeCalls = {}
    /\ siteLastCrawl = [site \in Sites |-> NoTime]
    /\ slast = NoCall
    /\ alerts = [id \in AlertIds |-> Absent]
    /\ suppressions = [type \in AlertTypes |-> NoTime]
    /\ createCalls = [c \in Callers |-> NoCreate]
    /\ alast = NoCall
    /\ changes = [id \in ChangeIds |-> Absent]
    /\ clast = NoCall
    /\ breaker = NewBreaker
    /\ calls = [c \in Callers |-> NoAttempt]
    /\ streak = 0
    /\ openedAt = NoTime
    /\ halfOpenSuccesses = 0
    /\ last_reload = NoTime
    /\ _reload_scheduled = FALSE
    /\ reloadDue = NoTime
    /\ changeTasks = {}
    /\ writes = 0
    /\ wlast = [op |-> "none"]
    /\ ledger = {}
    /\ schema = {}
    /\ runs = [c \in Callers |-> [phase |-> "idle"]]
    /\ glast = [op |-> "none"]
    /\ indexColl = <<>>
    /\ upserts = [c \in Callers |-> [phase |-> "idle"]]
    /\ ilast = [op |-> "none"]
    /\ pageColl = <<>>
    /\ pageCreates = [c \in Callers |-> [phase |-> "idle"]]
    /\ site_url_unique = FALSE
    /\ plast = [op |-> "none"]
    /\ configFile = [value |-> 1, state |-> "ok"]
    /\ _config = 1
    /\ environment = "dev"
    /\ _change_callbacks = <<>>
    /\ reloads = [c \in Callers |-> [phase |-> "idle"]]
    /\ mlast = [op |-> "none"]
    /\ archDocs = [d \in 1..MaxDocs |-> "absent"]
    /\ s3objects = {}
    /\ archive = [phase |-> "idle"]
    /\ dry_run = FALSE
    /\ pageDocs = [p \in {1, 2} |-> [status |-> "absent"]]
    /\ queueDocs = [i \in {1, 2} |-> [status |-> "absent"]]
    /\ tlast = [op |-> "none"]
    /\ sanIn = [t |-> "none"]
    /\ sanOut = [called |-> FALSE]
    /\ blast = NoCall

\* get_concurrent_session_count: count_documents on the collection itself
get_concurrent_session_count(site) ==
    Cardinality(MatchingIds(sessions,
        [site_id |-> Val(site), status |-> Val("running")]))

NextSessionId ==
    LET present == {id \in SessionIds : sessions[id] # NoSession}
    IN  IF present = {} THEN 1 ELSE MaxOf(present) + 1

\* start_crawl_session up to its last await: the site lookup, the count of
\* running sessions and the limit check.  A call that passes goes on to
\* insert_one.
start_crawl_session_check(site) ==
    IF site \notin Sites
    THEN /\ slast' = [op |-> "start_crawl_session", site |-> site,
                      ret |-> 0, error |-> "Site not found"]
         /\ UNCHANGED <<now, queueVars, otherVars, sessions, startCalls, progressCalls,
                        completeCalls, siteLastCrawl>>
    ELSE IF get_concurrent_session_count(site) >= CapOf[site]
    THEN /\ slast' = [op |-> "start_crawl_session", site |-> site,
                      ret |-> 0, error |-> "Maximum concurrent sessions"]
         /\ UNCHANGED <<now, queueVars, otherVars, sessions, startCalls, progressCalls,
                        completeCalls, siteLastCrawl>>
    ELSE /\ startCalls[site] < MaxStarts
         /\ startCalls' = [startCalls EXCEPT ![site] = @ + 1]
         /\ slast' = [op |-> "start_crawl_session_check", site |-> site]
         /\ UNCHANGED <<now, queueVars, otherVars, sessions, progressCalls,
                        completeCalls, siteLastCrawl>>

\* start_crawl_session: the insert_one of a call that passed the check
start_crawl_session_insert(site) ==
    /\ startCalls[site] > 0
    /\ NextSessionId \in SessionIds
    /\ startCalls' = [startCalls EXCEPT ![site] = @ - 1]
    /\ sessions' = [sessions EXCEPT ![NextSessionId] =
                       SessionDoc(site, "running", now)]
    /\ slast' = [op |-> "start_crawl_session", site |-> site,
                 ret |-> NextSessionId, error |-> NoStr]
    /\ UNCHANGED <<now, queueVars, otherVars, progressCalls, completeCalls,
                   siteLastCrawl>>

\* update_session_progress: the update document
ProgressUpdate(n, t) ==
    [key \in CounterKeys |-> Val(n)] @@ [last_update |-> Val(t)]

\* Mutant of update_session_progress: neither the check after find_one nor
\* the update's filter looks at the status.
update_session_progress_any_status(id, n) ==
    \/ /\ sessions[id] # NoSession
       /\ [id |-> id, n |-> n] \notin progressCalls
       /\ Cardinality(progressCalls) < MaxInFlight
       /\ progressCalls' = progressCalls \cup {[id |-> id, n |-> n]}
       /\ slast' = [op |-> "update_session_progress_find", id |-> id]
       /\ UNCHANGED <<now, queueVars, otherVars, sessions, startCalls, completeCalls,
                      siteLastCrawl>>
    \/ /\ [id |-> id, n |-> n] \in progressCalls
       /\ progressCalls' = progressCalls \ {[id |-> id, n |-> n]}
       /\ LET r == update_one(sessions, "_id" :> Val(id),
                              "$set" :> Dict(ProgressUpdate(n, now)), now)
          IN  /\ sessions' = r.coll
              /\ slast' = [op |-> "update_session_progress", id |-> id,
                           ret |-> IF HasModifiedCount(r.ret)
                                   THEN r.ret.modified_count > 0 ELSE FALSE]
       /\ UNCHANGED <<now, queueVars, otherVars, startCalls, completeCalls,
                      siteLastCrawl>>

\* update_session_progress: find_one and the running check, then (after an
\* await) update_one filtered by _id and status = running.
update_session_progress(id, n) ==
    \/ /\ [id |-> id, n |-> n] \notin progressCalls
       /\ IF find_one(sessions, "_id" :> Val(id)) = 0
             \/ sessions[id].status # "running"
          THEN /\ slast' = [op |-> "update_session_progress", id |-> id,
                            ret |-> FALSE]
               /\ UNCHANGED progressCalls
          ELSE /\ Cardinality(progressCalls) < MaxInFlight
               /\ progressCalls' = progressCalls \cup {[id |-> id, n |-> n]}
               /\ slast' = [op |-> "update_session_progress_find", id |-> id]
       /\ UNCHANGED <<now, queueVars, otherVars, sessions, startCalls, completeCalls,
                      siteLastCrawl>>
    \/ /\ [id |-> id, n |-> n] \in progressCalls
       /\ progressCalls' = progressCalls \ {[id |-> id, n |-> n]}
       /\ LET r == update_one(sessions,
                      ("_id" :> Val(id)) @@ ("status" :> Val("running")),
                      "$set" :> Dict(ProgressUpdate(n, now)), now)
          IN  /\ sessions' = r.coll
              /\ slast' = [op |-> "update_session_progress", id |-> id,
                           ret |-> IF HasModifiedCount(r.ret)
                                   THEN r.ret.modified_count > 0 ELSE FALSE]
       /\ UNCHANGED <<now, queueVars, otherVars, startCalls, completeCalls,
                      siteLastCrawl>>

\* complete_crawl_session, first await: find_one reads started_at and
\* site_id; a missing session raises and the call returns False.
complete_crawl_session_find(id, n) ==
    IF find_one(sessions, "_id" :> Val(id)) = 0
    THEN /\ slast' = [op |-> "complete_crawl_session", id |-> id,
                      ret |-> FALSE]
         /\ UNCHANGED <<now, queueVars, otherVars, sessions, startCalls, progressCalls,
                        completeCalls, siteLastCrawl>>
    ELSE /\ Cardinality(completeCalls) < MaxInFlight
         /\ completeCalls' = completeCalls \cup
               {[id |-> id, n |-> n, site_id |-> sessions[id].site_id,
                 started_at |-> sessions[id].started_at]}
         /\ slast' = [op |-> "complete_crawl_session_find", id |-> id]
         /\ UNCHANGED <<now, queueVars, otherVars, sessions, startCalls, progressCalls,
                        siteLastCrawl>>

\* complete_crawl_session: the update document (the final counters of the
\* stats sub-document, flattened)
CompleteUpdate(c, t) ==
    [key \in CounterKeys |-> Val(c.n)] @@
    [status |-> Val("completed"), completed_at |-> Val(t),
     last_update |-> Val(t)]

\* complete_crawl_session, second await: update_one filtered by _id only,
\* and on success the site's monitoring.last_crawl_time.
complete_crawl_session_update(c) ==
    LET r == update_one(sessions, "_id" :> Val(c.id),
                        "$set" :> Dict(CompleteUpdate(c, now)), now)
        raised == ~HasModifiedCount(r.ret)
        success == IF raised THEN FALSE ELSE r.ret.modified_count > 0
    IN  /\ c \in completeCalls
        /\ completeCalls' = completeCalls \ {c}
        /\ sessions' = r.coll
        /\ siteLastCrawl' = IF success
                            THEN [siteLastCrawl EXCEPT ![c.site_id] = now]
                            ELSE siteLastCrawl
        /\ slast' = [op |-> "complete_crawl_session", id |-> c.id,
                     ret |-> success]
        /\ UNCHANGED <<now, queueVars, otherVars, startCalls, progressCalls>>

\* abort_session
abort_session(id) ==
    LET r == update_one(sessions,
                 ("_id" :> Val(id)) @@ ("status" :> Val("running")),
                 "$set" :> Dict([status |-> Val("aborted"),
                                 completed_at |-> Val(now),
                                 abort_reason |-> Val("reason"),
                                 last_update |-> Val(now)]),
                 now)
    IN  /\ sessions' = r.coll
        /\ slast' = [op |-> "abort_session", id |-> id,
                     ret |-> IF HasModifiedCount(r.ret)
                             THEN r.ret.modified_count > 0 ELSE FALSE]
        /\ UNCHANGED <<now, queueVars, otherVars, startCalls, progressCalls,
                       completeCalls, siteLastCrawl>>

NextSessions ==
    \/ Tick
    \/ \E site \in Sites \cup {NoSite} : start_crawl_session_check(site)
    \/ \E site \in Sites : start_crawl_session_insert(site)
    \/ \E id \in SessionIds, n \in StatsChoices :
          update_session_progress(id, n)
    \/ \E id \in SessionIds, n \in StatsChoices :
          complete_crawl_session_find(id, n)
    \/ \E c \in completeCalls : complete_crawl_session_update(c)
    \/ \E id \in SessionIds : abort_session(id)

SpecSessions == InitSessions /\ [][NextSessions]_vars

\* purge_completed_tasks: delete_many of the completed tasks older than the
\* cutoff; the caller reads deleted_count off what delete_many returns
purge_completed_tasks(hours_old) ==
    LET cutoff_time == now - timedelta_hours(hours_old)
        r == delete_many(tasks,
                 ("status" :> Val("completed")) @@
                 ("completed_at" :> Dict("$lt" :> Val(cutoff_time))))
    IN  /\ tasks' = r.coll
        /\ last' = [op |-> "purge_completed_tasks", hours_old |-> hours_old,
                    ret |-> IF r.ret.type = "DeleteResult"
                            THEN r.ret.deleted_count ELSE 0]
        /\ epochLeases' = NextEpoch(tasks', 0)
        /\ UNCHANGED <<now, failCalls, sessionVars, otherVars>>

NextQueue ==
    \/ Tick
    \/ \E type \in TaskTypes \cup {NoStr}, prio \in Priorities,
          sched \in {NoTime, MaxTime}, mr \in MaxRetriesChoices,
          payloadOk \in BOOLEAN :
          enqueue_task(type, prio, sched, mr, payloadOk)
    \/ \E type \in TaskTypes \cup {NoStr} : dequeue_next_task(type)
    \/ \E id \in TaskIds, w \in Workers : mark_task_processing(id, w)
    \/ \E id \in TaskIds, result \in {"result", "not_serializable"} :
          complete_task(id, result)
    \/ \E id \in TaskIds, retry \in BOOLEAN : fail_task_find(id, retry)
    \/ \E c \in failCalls : fail_task_update(c)
    \/ \E ids \in (SUBSET TaskIds) \ {{}} : retry_failed_tasks(ids)
    \/ \E hours_old \in {0, 1} : purge_completed_tasks(hours_old)

SpecQueue == InitQueue /\ [][NextQueue]_vars

\* ------------------------------------------------------------ alerts
\* SEVERITY_LEVELS
SEVERITY_LEVELS == {"critical", "high", "medium", "low", "info"}
\* suppress_alert_type(duration_hours) and escalate_unresolved_alerts(hours_old)
HoursChoices == {1}

\* The Alert objects callers pass to create_alert: a high one, a low one
\* of another type, and one without a title, which is invalid.
AlertInputs ==
    {[alert_type |-> "crawl_failure", severity |-> "high",
      title |-> "title", site_id |-> 1, context |-> 1],
     [alert_type |-> "db_error", severity |-> "low",
      title |-> "title", site_id |-> 1, context |-> 1],
     [alert_type |-> "crawl_failure", severity |-> "high",
      title |-> NoStr, site_id |-> 1, context |-> 1]}

\* _calculate_alert_hash: md5 of "{alert_type}:{site_id}:{context}"
_calculate_alert_hash(alert_type, site_id, context) ==
    <<alert_type, site_id, context>>

\* The document create_alert inserts; resolved_at, resolution and
\* escalated_at are not in it until they are set (NoTime, NoStr).
AlertDoc(alert, t) ==
    [alert_type |-> alert.alert_type, severity |-> alert.severity,
     site_id |-> alert.site_id, context |-> alert.context,
     status |-> "active",
     alert_hash |-> _calculate_alert_hash(alert.alert_type, alert.site_id,
                                          alert.context),
     occurrence_count |-> 1, notification_sent |-> FALSE,
     created_at |-> t, last_seen |-> t,
     resolved_at |-> NoTime, resolution |-> NoStr, escalated_at |-> NoTime,
     updated_at |-> t]

InitAlerts ==
    /\ now = 0
    /\ tasks = [id \in TaskIds |-> NoTask]
    /\ failCalls = {}
    /\ epochLeases = [id \in TaskIds |-> 0]
    /\ last = NoCall
    /\ sessions = [id \in SessionIds |-> NoSession]
    /\ startCalls = [site \in Sites |-> 0]
    /\ progressCalls = {}
    /\ completeCalls = {}
    /\ siteLastCrawl = [site \in Sites |-> NoTime]
    /\ slast = NoCall
    /\ alerts = [id \in AlertIds |-> Absent]
    /\ suppressions = [type \in AlertTypes |-> NoTime]
    /\ createCalls = [c \in Callers |-> NoCreate]
    /\ alast = NoCall
    /\ changes = [id \in ChangeIds |-> Absent]
    /\ clast = NoCall
    /\ breaker = NewBreaker
    /\ calls = [c \in Callers |-> NoAttempt]
    /\ streak = 0
    /\ openedAt = NoTime
    /\ halfOpenSuccesses = 0
    /\ last_reload = NoTime
    /\ _reload_scheduled = FALSE
    /\ reloadDue = NoTime
    /\ changeTasks = {}
    /\ writes = 0
    /\ wlast = [op |-> "none"]
    /\ ledger = {}
    /\ schema = {}
    /\ runs = [c \in Callers |-> [phase |-> "idle"]]
    /\ glast = [op |-> "none"]
    /\ indexColl = <<>>
    /\ upserts = [c \in Callers |-> [phase |-> "idle"]]
    /\ ilast = [op |-> "none"]
    /\ pageColl = <<>>
    /\ pageCreates = [c \in Callers |-> [phase |-> "idle"]]
    /\ site_url_unique = FALSE
    /\ plast = [op |-> "none"]
    /\ configFile = [value |-> 1, state |-> "ok"]
    /\ _config = 1
    /\ environment = "dev"
    /\ _change_callbacks = <<>>
    /\ reloads = [c \in Callers |-> [phase |-> "idle"]]
    /\ mlast = [op |-> "none"]
    /\ archDocs = [d \in 1..MaxDocs |-> "absent"]
    /\ s3objects = {}
    /\ archive = [phase |-> "idle"]
    /\ dry_run = FALSE
    /\ pageDocs = [p \in {1, 2} |-> [status |-> "absent"]]
    /\ queueDocs = [i \in {1, 2} |-> [status |-> "absent"]]
    /\ tlast = [op |-> "none"]
    /\ sanIn = [t |-> "none"]
    /\ sanOut = [called |-> FALSE]
    /\ blast = NoCall

\* An hour passes.
TickHour ==
    /\ now + timedelta_hours(1) <= timedelta_hours(MaxHours)
    /\ now' = now + timedelta_hours(1)
    /\ alast' = [op |-> "tick"]
    /\ UNCHANGED <<queueVars, sessionVars, laterVars, alerts, suppressions, createCalls,
                   changeVars, breakerVars>>

\* Mutant of _is_alert_suppressed: no alert type is ever suppressed.
_is_alert_suppressed_never(alert_type) == FALSE

\* _is_alert_suppressed: find_one on the suppressions collection itself,
\* {"alert_type": alert_type, "suppressed_until": {"$gt": now}}
_is_alert_suppressed(alert_type) ==
    /\ suppressions[alert_type] # NoTime
    /\ suppressions[alert_type] > now

\* suppress_alert_type: an upsert on the suppressions collection itself
suppress_alert_type(alert_type, duration_hours) ==
    /\ suppressions' = [suppressions EXCEPT ![alert_type] =
                           now + timedelta_hours(duration_hours)]
    /\ alast' = [op |-> "suppress_alert_type", ret |-> TRUE]
    /\ UNCHANGED <<now, queueVars, sessionVars, laterVars, alerts, createCalls,
                   changeVars, breakerVars>>

NextAlertId ==
    LET present == {id \in AlertIds : alerts[id] # Absent}
    IN  IF present = {} THEN 1 ELSE MaxOf(present) + 1

\* create_alert up to its first await: the validation of the Alert and the
\* suppression check.  An invalid alert raises; a suppressed one returns
\* None (0 here); any other goes on to the duplicate lookup.
create_alert_check(c, alert) ==
    /\ createCalls[c] = NoCreate
    /\ IF alert.alert_type = NoStr \/ alert.title = NoStr
          \/ alert.severity \notin SEVERITY_LEVELS
       THEN /\ alast' = [op |-> "create_alert", caller |-> c, ret |-> 0,
                         error |-> "ValidationError",
                         alert_type |-> alert.alert_type]
            /\ UNCHANGED createCalls
       ELSE IF _is_alert_suppressed(alert.alert_type)
       THEN /\ alast' = [op |-> "create_alert", caller |-> c, ret |-> 0,
                         error |-> NoStr, alert_type |-> alert.alert_type]
            /\ UNCHANGED createCalls
       ELSE /\ createCalls' = [createCalls EXCEPT ![c] =
                                  [phase |-> "checked", alert |-> alert]]
            /\ alast' = [op |-> "create_alert_check", caller |-> c]
    /\ UNCHANGED <<now, queueVars, sessionVars, laterVars, alerts, suppressions,
                   changeVars, breakerVars>>

\* create_alert, second await: find_one looks for an active alert with the
\* same hash; what it returns has its _id converted to a str.
create_alert_find(c) ==
    LET alert == createCalls[c].alert
        existing_alert ==
            find_one(alerts,
                ("alert_hash" :> Val(_calculate_alert_hash(alert.alert_type,
                                        alert.site_id, alert.context))) @@
                ("status" :> Val("active")))
    IN  /\ createCalls[c].phase = "checked"
        /\ createCalls' = [createCalls EXCEPT ![c] =
               [phase |-> "found", alert |-> alert,
                existing |-> existing_alert]]
        /\ alast' = [op |-> "create_alert_find", caller |-> c]
        /\ UNCHANGED <<now, queueVars, sessionVars, laterVars, alerts, suppressions,
                       changeVars, breakerVars>>

\* create_alert, last await: update_one on the alert that was found, or
\* insert_one of a new alert.  (The lookup of the site before the insert
\* only logs a warning.)  Both return the alert's id as a str.
create_alert_write(c) ==
    LET call == createCalls[c]
    IN  /\ call.phase = "found"
        /\ createCalls' = [createCalls EXCEPT ![c] = NoCreate]
        /\ IF call.existing # 0
           THEN LET r == update_one(alerts,
                            "_id" :> _convert_object_ids(call.existing),
                            ("$set" :> Dict([last_seen |-> Val(now)])) @@
                            ("$inc" :> Dict([occurrence_count |-> Val(1)])),
                            now)
                IN  /\ alerts' = r.coll
                    /\ alast' = [op |-> "create_alert", caller |-> c,
                                 ret |-> call.existing, error |-> NoStr,
                                 alert_type |-> call.alert.alert_type]
           ELSE /\ NextAlertId \in AlertIds
                /\ alerts' = [alerts EXCEPT ![NextAlertId] =
                                 AlertDoc(call.alert, now)]
                /\ alast' = [op |-> "create_alert", caller |-> c,
                             ret |-> NextAlertId, error |-> NoStr,
                             alert_type |-> call.alert.alert_type]
        /\ UNCHANGED <<now, queueVars, sessionVars, laterVars, suppressions,
                       changeVars, breakerVars>>

\* resolve_alert
resolve_alert(id, resolution) ==
    LET r == update_one(alerts,
                 ("_id" :> Val(id)) @@ ("status" :> Val("active")),
                 "$set" :> Dict([status |-> Val("resolved"),
                                 resolution |-> Val(resolution),
                                 resolved_at |-> Val(now)]),
                 now)
    IN  /\ alerts' = r.coll
        /\ alast' = [op |-> "resolve_alert", id |-> id,
                     ret |-> IF HasModifiedCount(r.ret)
                             THEN r.ret.modified_count > 0 ELSE FALSE]
        /\ UNCHANGED <<now, queueVars, sessionVars, laterVars, suppressions,
                       createCalls, changeVars, breakerVars>>

\* escalate_unresolved_alerts: the filter of its find_many
EscalateQuery(cutoff_time) ==
    ("status" :> Val("active")) @@
    ("severity" :> Dict("$in" :> Val({"critical", "high"}))) @@
    ("created_at" :> Dict("$lt" :> Val(cutoff_time))) @@
    ("escalated_at" :> Dict("$exists" :> Val(FALSE)))

\* escalate_unresolved_alerts: the loop over the documents found, one
\* update_one each, by the _id as find_many returned it
RECURSIVE EscalateEach(_, _, _)
EscalateEach(coll, ids, t) ==
    IF ids = {} THEN coll
    ELSE LET id == MinOf(ids)
             r == update_one(coll, "_id" :> _convert_object_ids(id),
                             "$set" :> Dict([escalated_at |-> Val(t)]), t)
         IN  EscalateEach(r.coll, ids \ {id}, t)

\* escalate_unresolved_alerts: returns the alerts it found
escalate_unresolved_alerts(hours_old) ==
    LET cutoff_time == now - timedelta_hours(hours_old)
        found == find_many(alerts, EscalateQuery(cutoff_time))
    IN  /\ alerts' = EscalateEach(alerts, found, now)
        /\ alast' = [op |-> "escalate_unresolved_alerts", ret |-> found]
        /\ UNCHANGED <<now, queueVars, sessionVars, laterVars, suppressions,
                       createCalls, changeVars, breakerVars>>

NextAlerts ==
    \/ TickHour
    \/ \E c \in Callers, alert \in AlertInputs : create_alert_check(c, alert)
    \/ \E c \in Callers : create_alert_find(c)
    \/ \E c \in Callers : create_alert_write(c)
    \/ \E id \in AlertIds : resolve_alert(id, "fixed")
    \/ \E type \in AlertTypes, h \in HoursChoices :
          suppress_alert_type(type, h)
    \/ \E h \in HoursChoices : escalate_unresolved_alerts(h)

SpecAlerts == InitAlerts /\ [][NextAlerts]_vars

\* ------------------------------------------------------------ content changes
CHANGE_TYPES == {"new", "modified", "deleted"}
\* PRIORITY_LEVELS, a list
PRIORITY_LEVELS == <<"low", "medium", "high", "critical">>
\* Pages the pages repository finds; any other page_id resolves to None
Pages == {1}
\* The context maps callers pass; content_change_ratio is in hundredths
\* (5 is 0.05, 20 is 0.2, 60 is 0.6)
Contexts ==
    {[author_known |-> FALSE, philosophical_content |-> FALSE,
      content_change_ratio |-> 5],
     [author_known |-> FALSE, philosophical_content |-> FALSE,
      content_change_ratio |-> 20],
     [author_known |-> TRUE, philosophical_content |-> FALSE,
      content_change_ratio |-> 60]}
\* The keyword arguments of ContentChange(...) that matter here: priority
\* left out, or priority=None
PriorityKwargs == {<<>>, [priority |-> NoStr]}

\* ContentChange.__init__: priority = kwargs.get('priority', 'medium')
ContentChange(page_id, change_type, context, kwargs) ==
    [page_id |-> page_id, change_type |-> change_type, site_id |-> 1,
     context |-> context,
     priority |-> IF "priority" \in DOMAIN kwargs THEN kwargs["priority"]
                  ELSE "medium"]

\* _determine_change_priority
_determine_change_priority(change_type, context) ==
    IF change_type = "deleted" THEN "high"
    ELSE IF change_type = "new"
    THEN (IF context.author_known \/ context.philosophical_content
          THEN "high" ELSE "medium")
    ELSE IF change_type = "modified"
    THEN (IF context.content_change_ratio > 50 THEN "high"
          ELSE IF context.content_change_ratio > 10 THEN "medium"
          ELSE "low")
    ELSE "medium"

InitChanges ==
    /\ now = 0
    /\ tasks = [id \in TaskIds |-> NoTask]
    /\ failCalls = {}
    /\ epochLeases = [id \in TaskIds |-> 0]
    /\ last = NoCall
    /\ sessions = [id \in SessionIds |-> NoSession]
    /\ startCalls = [site \in Sites |-> 0]
    /\ progressCalls = {}
    /\ completeCalls = {}
    /\ siteLastCrawl = [site \in Sites |-> NoTime]
    /\ slast = NoCall
    /\ alerts = [id \in AlertIds |-> Absent]
    /\ suppressions = [type \in AlertTypes |-> NoTime]
    /\ createCalls = [c \in Callers |-> NoCreate]
    /\ alast = NoCall
    /\ changes = [id \in ChangeIds |-> Absent]
    /\ clast = NoCall
    /\ breaker = NewBreaker
    /\ calls = [c \in Callers |-> NoAttempt]
    /\ streak = 0
    /\ openedAt = NoTime
    /\ halfOpenSuccesses = 0
    /\ last_reload = NoTime
    /\ _reload_scheduled = FALSE
    /\ reloadDue = NoTime
    /\ changeTasks = {}
    /\ writes = 0
    /\ wlast = [op |-> "none"]
    /\ ledger = {}
    /\ schema = {}
    /\ runs = [c \in Callers |-> [phase |-> "idle"]]
    /\ glast = [op |-> "none"]
    /\ indexColl = <<>>
    /\ upserts = [c \in Callers |-> [phase |-> "idle"]]
    /\ ilast = [op |-> "none"]
    /\ pageColl = <<>>
    /\ pageCreates = [c \in Callers |-> [phase |-> "idle"]]
    /\ site_url_unique = FALSE
    /\ plast = [op |-> "none"]
    /\ configFile = [value |-> 1, state |-> "ok"]
    /\ _config = 1
    /\ environment = "dev"
    /\ _change_callbacks = <<>>
    /\ reloads = [c \in Callers |-> [phase |-> "idle"]]
    /\ mlast = [op |-> "none"]
    /\ archDocs = [d \in 1..MaxDocs |-> "absent"]
    /\ s3objects = {}
    /\ archive = [phase |-> "idle"]
    /\ dry_run = FALSE
    /\ pageDocs = [p \in {1, 2} |-> [status |-> "absent"]]
    /\ queueDocs = [i \in {1, 2} |-> [status |-> "absent"]]
    /\ tlast = [op |-> "none"]
    /\ sanIn = [t |-> "none"]
    /\ sanOut = [called |-> FALSE]
    /\ blast = NoCall

NextChangeId ==
    LET present == {id \in ChangeIds : changes[id] # Absent}
    IN  IF present = {} THEN 1 ELSE MaxOf(present) + 1

\* record_content_change: validation (a bad change_type, or a new/modified
\* change whose page does not resolve, raises), the priority when the
\* change has none, and insert_one.
record_content_change(change) ==
    /\ NextChangeId \in ChangeIds
    /\ IF \/ change.change_type \notin CHANGE_TYPES
          \/ (change.change_type \in {"new", "modified"}
                /\ change.page_id \notin Pages)
       THEN /\ changes' = changes
            /\ clast' = [op |-> "record_content_change", ret |-> 0]
       ELSE LET priority ==
                    IF change.priority = NoStr
                    THEN _determine_change_priority(change.change_type,
                                                    change.context)
                    ELSE change.priority
            IN  /\ changes' = [changes EXCEPT ![NextChangeId] =
                      [page_id |-> change.page_id,
                       change_type |-> change.change_type,
                       site_id |-> change.site_id,
                       priority |-> priority,
                       notification_sent |-> FALSE,
                       notified_at |-> NoTime,
                       detected_at |-> now,
                       context |-> change.context,
                       updated_at |-> now]]
                /\ clast' = [op |-> "record_content_change",
                             ret |-> NextChangeId]
    /\ UNCHANGED <<now, queueVars, sessionVars, laterVars, alertVars, breakerVars>>

\* mark_change_notified
mark_change_notified(id) ==
    LET r == update_one(changes, "_id" :> Val(id),
                 "$set" :> Dict([notification_sent |-> Val(TRUE),
                                 notified_at |-> Val(now)]),
                 now)
    IN  /\ changes' = r.coll
        /\ clast' = [op |-> "mark_change_notified",
                     ret |-> IF HasModifiedCount(r.ret)
                             THEN r.ret.modified_count > 0 ELSE FALSE]
        /\ UNCHANGED <<now, queueVars, sessionVars, laterVars, alertVars, breakerVars>>

\* How the backend orders the priority names: as strings
StringOrder == [critical |-> 1, high |-> 2, low |-> 3, medium |-> 4]

\* sort = [("priority", DESCENDING), ("detected_at", ASCENDING)]
CursorSortsBefore(a, b) ==
    \/ StringOrder[a.priority] > StringOrder[b.priority]
    \/ a.priority = b.priority /\ a.detected_at < b.detected_at

\* The lists that hold each id of a set once
Orderings(ids) ==
    {seq \in [1..Cardinality(ids) -> ids] :
        \A i, j \in DOMAIN seq : i # j => seq[i] # seq[j]}

\* What the sorted cursor may return (the order among equal sort keys is
\* the backend's choice; limit=1000 is above the size of the collection)
CursorResults(ids) ==
    {seq \in Orderings(ids) :
        \A i, j \in DOMAIN seq :
            i < j => ~CursorSortsBefore(changes[seq[j]], changes[seq[i]])}

\* priority_order = {p: i for i, p in enumerate(reversed(PRIORITY_LEVELS))}
priority_order(p) ==
    Len(PRIORITY_LEVELS) -
        (CHOOSE i \in DOMAIN PRIORITY_LEVELS : PRIORITY_LEVELS[i] = p)

\* changes.sort(key=lambda c: priority_order.get(c.priority, 0),
\* reverse=True): keys descending, equal keys in their original order
PythonSort(seq) ==
    LET pos(id) == CHOOSE i \in DOMAIN seq : seq[i] = id
        key(id) == priority_order(changes[id].priority)
    IN  CHOOSE out \in Orderings({seq[i] : i \in DOMAIN seq}) :
           \A i, j \in DOMAIN out :
               i < j => \/ key(out[i]) > key(out[j])
                        \/ /\ key(out[i]) = key(out[j])
                           /\ pos(out[i]) < pos(out[j])

\* get_unnotified_changes: find_many with the sort, then the sort of the
\* list in Python; a priority that is not a level raises, and [] is returned
get_unnotified_changes(priority) ==
    LET levels == {PRIORITY_LEVELS[i] : i \in DOMAIN PRIORITY_LEVELS}
        base == "notification_sent" :> Val(FALSE)
        query == IF priority = NoStr THEN base
                 ELSE base @@ ("priority" :> Val(priority))
    IN  /\ IF priority # NoStr /\ priority \notin levels
           THEN clast' = [op |-> "get_unnotified_changes", ret |-> <<>>]
           ELSE \E cursor \in CursorResults(find_many(changes, query)) :
                   clast' = [op |-> "get_unnotified_changes",
                             ret |-> PythonSort(cursor)]
        /\ UNCHANGED <<now, queueVars, sessionVars, laterVars, alertVars, breakerVars,
                       changes>>

NextChanges ==
    \/ Tick
    \/ \E page_id \in Pages \cup {Cardinality(Pages) + 1},
          change_type \in CHANGE_TYPES \cup {"renamed"},
          context \in Contexts, kwargs \in PriorityKwargs :
          record_content_change(
              ContentChange(page_id, change_type, context, kwargs))
    \/ \E id \in ChangeIds : mark_change_notified(id)
    \/ \E priority \in {NoStr, "high", "urgent"} :
          get_unnotified_changes(priority)

SpecChanges == InitChanges /\ [][NextChanges]_vars

\* ------------------------------------------------------------ circuit breaker
\* CircuitBreakerConfig
failure_threshold == 5
recovery_timeout == 60
success_threshold == 3
\* _with_retry(max_retries=3)
max_retries == 3

InitBreaker ==
    /\ now = 0
    /\ tasks = [id \in TaskIds |-> NoTask]
    /\ failCalls = {}
    /\ epochLeases = [id \in TaskIds |-> 0]
    /\ last = NoCall
    /\ sessions = [id \in SessionIds |-> NoSession]
    /\ startCalls = [site \in Sites |-> 0]
    /\ progressCalls = {}
    /\ completeCalls = {}
    /\ siteLastCrawl = [site \in Sites |-> NoTime]
    /\ slast = NoCall
    /\ alerts = [id \in AlertIds |-> Absent]
    /\ suppressions = [type \in AlertTypes |-> NoTime]
    /\ createCalls = [c \in Callers |-> NoCreate]
    /\ alast = NoCall
    /\ changes = [id \in ChangeIds |-> Absent]
    /\ clast = NoCall
    /\ breaker = NewBreaker
    /\ calls = [c \in Callers |-> NoAttempt]
    /\ streak = 0
    /\ openedAt = NoTime
    /\ halfOpenSuccesses = 0
    /\ last_reload = NoTime
    /\ _reload_scheduled = FALSE
    /\ reloadDue = NoTime
    /\ changeTasks = {}
    /\ writes = 0
    /\ wlast = [op |-> "none"]
    /\ ledger = {}
    /\ schema = {}
    /\ runs = [c \in Callers |-> [phase |-> "idle"]]
    /\ glast = [op |-> "none"]
    /\ indexColl = <<>>
    /\ upserts = [c \in Callers |-> [phase |-> "idle"]]
    /\ ilast = [op |-> "none"]
    /\ pageColl = <<>>
    /\ pageCreates = [c \in Callers |-> [phase |-> "idle"]]
    /\ site_url_unique = FALSE
    /\ plast = [op |-> "none"]
    /\ configFile = [value |-> 1, state |-> "ok"]
    /\ _config = 1
    /\ environment = "dev"
    /\ _change_callbacks = <<>>
    /\ reloads = [c \in Callers |-> [phase |-> "idle"]]
    /\ mlast = [op |-> "none"]
    /\ archDocs = [d \in 1..MaxDocs |-> "absent"]
    /\ s3objects = {}
    /\ archive = [phase |-> "idle"]
    /\ dry_run = FALSE
    /\ pageDocs = [p \in {1, 2} |-> [status |-> "absent"]]
    /\ queueDocs = [i \in {1, 2} |-> [status |-> "absent"]]
    /\ tlast = [op |-> "none"]
    /\ sanIn = [t |-> "none"]
    /\ sanOut = [called |-> FALSE]
    /\ blast = NoCall

\* Half a recovery window passes.
TickBreaker ==
    /\ now + 30 <= MaxBreakerTime
    /\ now' = now + 30
    /\ blast' = [op |-> "tick"]
    /\ UNCHANGED <<queueVars, sessionVars, laterVars, alertVars, changeVars, breaker,
                   calls, streak, openedAt, halfOpenSuccesses>>

\* Mutant of can_execute: entering half_open keeps the old success_count.
can_execute_keeps_success_count(b, t) ==
    IF b.state = "open" /\ b.last_failure_time # NoTime
       /\ t - b.last_failure_time >= recovery_timeout
    THEN [ok |-> TRUE, breaker |-> [b EXCEPT !.state = "half_open"]]
    ELSE [ok |-> b.state # "open", breaker |-> b]

\* CircuitBreaker.can_execute: the answer and the breaker afterwards
can_execute(b, t) ==
    IF b.state = "closed" THEN [ok |-> TRUE, breaker |-> b]
    ELSE IF b.state = "open"
    THEN (IF b.last_failure_time # NoTime
             /\ t - b.last_failure_time >= recovery_timeout
          THEN [ok |-> TRUE,
                breaker |-> [b EXCEPT !.state = "half_open",
                                      !.success_count = 0]]
          ELSE [ok |-> FALSE, breaker |-> b])
    ELSE [ok |-> TRUE, breaker |-> b]

\* CircuitBreaker.record_success
record_success(b) ==
    IF b.state = "half_open"
    THEN (IF b.success_count + 1 >= success_threshold
          THEN [b EXCEPT !.success_count = @ + 1, !.state = "closed",
                         !.failure_count = 0]
          ELSE [b EXCEPT !.success_count = @ + 1])
    ELSE IF b.state = "closed" THEN [b EXCEPT !.failure_count = 0]
    ELSE b

\* CircuitBreaker.record_failure
record_failure(b, t) ==
    LET counted == [b EXCEPT !.failure_count = @ + 1,
                             !.last_failure_time = t]
    IN  IF b.state = "half_open" THEN [counted EXCEPT !.state = "open"]
        ELSE IF b.state = "closed"
                /\ counted.failure_count >= failure_threshold
        THEN [counted EXCEPT !.state = "open"]
        ELSE counted

\* Mutant of _retry_delay: the delay grows by one second per attempt.
_retry_delay_linear(attempt) == 1 + attempt

\* _with_retry: delay = min(base_delay * exponential_base ** attempt,
\* max_delay), with base_delay 1.0, exponential_base 2.0, max_delay 60.0
_retry_delay(attempt) ==
    IF 1 * (2 ^ attempt) < 60 THEN 1 * (2 ^ attempt) ELSE 60

\* _with_retry up to the first invocation: can_execute, and the
\* ConnectionError when the breaker refuses
_with_retry_begin(c) ==
    LET r == can_execute(breaker, now)
    IN  /\ calls[c] = NoAttempt
        /\ breaker' = r.breaker
        /\ halfOpenSuccesses' = IF breaker'.state # breaker.state THEN 0
                                ELSE halfOpenSuccesses
        /\ IF r.ok
           THEN /\ calls' = [calls EXCEPT ![c] =
                                [phase |-> "running", attempt |-> 0]]
                /\ blast' = [op |-> "_with_retry_begin", caller |-> c]
           ELSE /\ calls' = calls
                /\ blast' = [op |-> "_with_retry", caller |-> c,
                             raised |-> "ConnectionError",
                             invocations |-> 0]
        /\ UNCHANGED <<now, queueVars, sessionVars, laterVars, alertVars, changeVars,
                       streak, openedAt>>

\* _with_retry: one invocation of the operation and what follows it.  The
\* operation returns ("ok"), raises a transient transport error
\* ("transient": NetworkTimeout, ServerSelectionTimeoutError,
\* AutoReconnect) or raises anything else ("fatal").  After the last
\* transient failure the loop is left and record_failure runs once more.
_with_retry_attempt(c, outcome) ==
    LET attempt == calls[c].attempt
        failed == record_failure(breaker, now)
    IN  /\ calls[c] # NoAttempt
        /\ outcome # "ok" => breaker.failure_count + 2 <= MaxFailures
        /\ CASE outcome = "ok" ->
                  /\ breaker' = record_success(breaker)
                  /\ streak' = 0
                  /\ calls' = [calls EXCEPT ![c] = NoAttempt]
                  /\ blast' = [op |-> "_with_retry", caller |-> c,
                               raised |-> NoStr,
                               invocations |-> attempt + 1]
             [] outcome = "transient" /\ attempt < max_retries ->
                  /\ breaker' = failed
                  /\ streak' = streak + 1
                  /\ calls' = [calls EXCEPT ![c].attempt = @ + 1]
                  /\ blast' = [op |-> "_with_retry_sleep", caller |-> c,
                               delay |-> _retry_delay(attempt)]
             [] outcome = "transient" /\ attempt = max_retries ->
                  /\ breaker' = record_failure(failed, now)
                  /\ streak' = streak + 1
                  /\ calls' = [calls EXCEPT ![c] = NoAttempt]
                  /\ blast' = [op |-> "_with_retry", caller |-> c,
                               raised |-> "ConnectionError",
                               invocations |-> attempt + 1]
             [] outcome = "fatal" ->
                  /\ breaker' = failed
                  /\ streak' = streak + 1
                  /\ calls' = [calls EXCEPT ![c] = NoAttempt]
                  /\ blast' = [op |-> "_with_retry", caller |-> c,
                               raised |-> "RepositoryError",
                               invocations |-> attempt + 1]
        /\ openedAt' = IF breaker'.state = "open" /\ breaker.state # "open"
                       THEN now ELSE openedAt
        /\ halfOpenSuccesses' =
               IF outcome = "ok" /\ breaker.state = "half_open"
               THEN halfOpenSuccesses + 1 ELSE halfOpenSuccesses
        /\ UNCHANGED <<now, queueVars, sessionVars, laterVars, alertVars, changeVars>>

NextBreaker ==
    \/ TickBreaker
    \/ \E c \in Callers : _with_retry_begin(c)
    \/ \E c \in Callers, outcome \in {"ok", "transient", "fatal"} :
          _with_retry_attempt(c, outcome)

SpecBreaker == InitBreaker /\ [][NextBreaker]_vars

\* ------------------------------------------------------------ sanitizer
\* The values _sanitize_input may be called on: a scalar, a dict with keys among
\* "a" and "$gt", or a list of one element, nested up to MaxDepth levels
\* above the innermost values.
SanitizeKeys == {"a", "$gt"}

RECURSIVE SanitizeValues(_)
SanitizeValues(n) ==
    IF n = 0
    THEN {Val(1), Dict([k \in {"$gt"} |-> Val(1)])}
    ELSE LET inner == SanitizeValues(n - 1)
         IN  {Val(1)}
             \cup UNION {{Dict(f) : f \in [S -> inner]} :
                            S \in SUBSET SanitizeKeys}
             \cup {List(<<x>>) : x \in inner}

InitSanitize ==
    /\ now = 0
    /\ tasks = [id \in TaskIds |-> NoTask]
    /\ failCalls = {}
    /\ epochLeases = [id \in TaskIds |-> 0]
    /\ last = NoCall
    /\ sessions = [id \in SessionIds |-> NoSession]
    /\ startCalls = [s \in Sites |-> 0]
    /\ progressCalls = {}
    /\ completeCalls = {}
    /\ siteLastCrawl = [s \in Sites |-> NoTime]
    /\ slast = NoCall
    /\ alerts = [id \in AlertIds |-> Absent]
    /\ suppressions = [ty \in AlertTypes |-> NoTime]
    /\ createCalls = [c \in Callers |-> NoCreate]
    /\ alast = NoCall
    /\ changes = [id \in ChangeIds |-> Absent]
    /\ clast = NoCall
    /\ breaker = NewBreaker
    /\ calls = [c \in Callers |-> NoAttempt]
    /\ streak = 0
    /\ openedAt = NoTime
    /\ halfOpenSuccesses = 0
    /\ last_reload = NoTime
    /\ _reload_scheduled = FALSE
    /\ reloadDue = NoTime
    /\ changeTasks = {}
    /\ writes = 0
    /\ wlast = [op |-> "none"]
    /\ ledger = {}
    /\ schema = {}
    /\ runs = [c \in Callers |-> [phase |-> "idle"]]
    /\ glast = [op |-> "none"]
    /\ indexColl = <<>>
    /\ upserts = [c \in Callers |-> [phase |-> "idle"]]
    /\ ilast = [op |-> "none"]
    /\ pageColl = <<>>
    /\ pageCreates = [c \in Callers |-> [phase |-> "idle"]]
    /\ site_url_unique = FALSE
    /\ plast = [op |-> "none"]
    /\ configFile = [value |-> 1, state |-> "ok"]
    /\ _config = 1
    /\ environment = "dev"
    /\ _change_callbacks = <<>>
    /\ reloads = [c \in Callers |-> [phase |-> "idle"]]
    /\ mlast = [op |-> "none"]
    /\ archDocs = [d \in 1..MaxDocs |-> "absent"]
    /\ s3objects = {}
    /\ archive = [phase |-> "idle"]
    /\ dry_run = FALSE
    /\ pageDocs = [p \in {1, 2} |-> [status |-> "absent"]]
    /\ queueDocs = [i \in {1, 2} |-> [status |-> "absent"]]
    /\ tlast = [op |-> "none"]
    /\ sanIn \in SanitizeValues(MaxDepth)
    /\ sanOut = [called |-> FALSE]
    /\ blast = NoCall

\* The call _sanitize_input(sanIn): anything that is not a dict raises
\* ValidationError, a dict is returned sanitized
sanitize_input_call ==
    /\ ~sanOut.called
    /\ sanOut' = IF sanIn.t # "d"
                 THEN [called |-> TRUE, raised |-> "ValidationError"]
                 ELSE [called |-> TRUE, raised |-> NoStr,
                       value |-> Dict(_sanitize_input(sanIn.d))]
    /\ UNCHANGED <<now, queueVars, sessionVars, alertVars, changeVars,
                   breakerVars, moreVars, sanIn, txVars, archiveVars, configVars>>

NextSanitize == sanitize_input_call

SpecSanitize == InitSanitize /\ [][NextSanitize]_vars

\* ------------------------------------------------------------ transaction
TxPages == {1, 2}
TxTaskIds == {1, 2}
\* a page_id that is not the hex form of an ObjectId
InvalidId == 0

InitTransaction ==
    /\ now = 0
    /\ tasks = [id \in TaskIds |-> NoTask]
    /\ failCalls = {}
    /\ epochLeases = [id \in TaskIds |-> 0]
    /\ last = NoCall
    /\ sessions = [id \in SessionIds |-> NoSession]
    /\ startCalls = [s \in Sites |-> 0]
    /\ progressCalls = {}
    /\ completeCalls = {}
    /\ siteLastCrawl = [s \in Sites |-> NoTime]
    /\ slast = NoCall
    /\ alerts = [id \in AlertIds |-> Absent]
    /\ suppressions = [ty \in AlertTypes |-> NoTime]
    /\ createCalls = [c \in Callers |-> NoCreate]
    /\ alast = NoCall
    /\ changes = [id \in ChangeIds |-> Absent]
    /\ clast = NoCall
    /\ breaker = NewBreaker
    /\ calls = [c \in Callers |-> NoAttempt]
    /\ streak = 0
    /\ openedAt = NoTime
    /\ halfOpenSuccesses = 0
    /\ last_reload = NoTime
    /\ _reload_scheduled = FALSE
    /\ reloadDue = NoTime
    /\ changeTasks = {}
    /\ writes = 0
    /\ wlast = [op |-> "none"]
    /\ ledger = {}
    /\ schema = {}
    /\ runs = [c \in Callers |-> [phase |-> "idle"]]
    /\ glast = [op |-> "none"]
    /\ indexColl = <<>>
    /\ upserts = [c \in Callers |-> [phase |-> "idle"]]
    /\ ilast = [op |-> "none"]
    /\ pageColl = <<>>
    /\ pageCreates = [c \in Callers |-> [phase |-> "idle"]]
    /\ site_url_unique = FALSE
    /\ plast = [op |-> "none"]
    /\ configFile = [value |-> 1, state |-> "ok"]
    /\ _config = 1
    /\ environment = "dev"
    /\ _change_callbacks = <<>>
    /\ reloads = [c \in Callers |-> [phase |-> "idle"]]
    /\ mlast = [op |-> "none"]
    /\ archDocs = [d \in 1..MaxDocs |-> "absent"]
    /\ s3objects = {}
    /\ archive = [phase |-> "idle"]
    /\ dry_run = FALSE
    /\ sanIn = [t |-> "none"]
    /\ sanOut = [called |-> FALSE]
    /\ pageDocs \in [TxPages -> {Absent, [version |-> 0]}]
    /\ queueDocs \in [TxTaskIds ->
                        {Absent} \cup {[page_id |-> p] : p \in TxPages}]
    /\ tlast = [op |-> "none"]
    /\ blast = NoCall

\* update_page_and_clear_task(page_id, update_data, task_query), with
\* task_query = {"page_id": task_page}.  `fault` says where an exception is
\* raised inside the transaction, if anywhere: on an exception the
\* transaction is aborted and TransactionError raised; when the block is
\* left by `return success` the transaction commits, whatever success is.
update_page_and_clear_task(page_id, task_page, fault) ==
    LET matched == page_id \in TxPages /\ pageDocs[page_id] # Absent
        modified_count == IF matched THEN 1 ELSE 0
        hits == {i \in TxTaskIds : queueDocs[i] # Absent
                                     /\ queueDocs[i].page_id = task_page}
        deleted_count == IF hits = {} THEN 0 ELSE 1
    IN  /\ matched => pageDocs[page_id].version < MaxPageVersion
        /\ IF page_id = InvalidId \/ fault # "none"
           THEN /\ tlast' = [op |-> "update_page_and_clear_task",
                            page_id |-> page_id, task_page |-> task_page,
                            raised |-> "TransactionError"]
                /\ UNCHANGED <<pageDocs, queueDocs>>
           ELSE /\ pageDocs' = IF matched
                               THEN [pageDocs EXCEPT
                                       ![page_id].version = @ + 1]
                               ELSE pageDocs
                /\ queueDocs' = IF hits = {} THEN queueDocs
                                ELSE [queueDocs EXCEPT ![MinOf(hits)] = Absent]
                /\ tlast' = [op |-> "update_page_and_clear_task",
                            page_id |-> page_id, task_page |-> task_page,
                            raised |-> NoStr,
                            ret |-> (modified_count > 0
                                       /\ deleted_count > 0)]
        /\ UNCHANGED <<now, queueVars, sessionVars, alertVars, changeVars,
                       breakerVars, moreVars, sanitizeVars, archiveVars,
                       configVars>>

NextTransaction ==
    \E page_id \in TxPages \cup {InvalidId}, task_page \in TxPages,
       fault \in {"none", "update_one", "delete_one"} :
        update_page_and_clear_task(page_id, task_page, fault)

SpecTransaction == InitTransaction /\ [][NextTransaction]_vars

\* ------------------------------------------------------------ archival
DocIds == 1..MaxDocs

\* collection.find(query): the documents older than the cutoff, in the
\* order the collection returns them
FindOld(docs) == SelectSeq([i \in DocIds |-> i], LAMBDA i : docs[i] = "old")

\* One page of _get_batches: find(query).skip(skip).limit(batch_size)
_get_batches(docs, skip) ==
    LET found == FindOld(docs)
        to == IF skip + batch_size < Len(found) THEN skip + batch_size
              ELSE Len(found)
    IN  SubSeq(found, skip + 1, to)

\* _generate_archive_key: timestamp of the run, first and last _id
_generate_archive_key(run, batch) == <<run, batch[1], batch[Len(batch)]>>

\* Mutant of DeletedAfter: the batch is removed whatever the upload did
\* and whatever dry_run says.
DeletedAfterAlways(success, batch) == {batch[i] : i \in DOMAIN batch}

\* archive_old_documents: the documents removed after a batch was handed to
\* _archive_batch_to_s3
DeletedAfter(success, batch) ==
    IF success /\ ~dry_run THEN {batch[i] : i \in DOMAIN batch} ELSE {}

InitArchive ==
    /\ now = 0
    /\ tasks = [id \in TaskIds |-> NoTask]
    /\ failCalls = {}
    /\ epochLeases = [id \in TaskIds |-> 0]
    /\ last = NoCall
    /\ sessions = [id \in SessionIds |-> NoSession]
    /\ startCalls = [s \in Sites |-> 0]
    /\ progressCalls = {}
    /\ completeCalls = {}
    /\ siteLastCrawl = [s \in Sites |-> NoTime]
    /\ slast = NoCall
    /\ alerts = [id \in AlertIds |-> Absent]
    /\ suppressions = [ty \in AlertTypes |-> NoTime]
    /\ createCalls = [c \in Callers |-> NoCreate]
    /\ alast = NoCall
    /\ changes = [id \in ChangeIds |-> Absent]
    /\ clast = NoCall
    /\ breaker = NewBreaker
    /\ calls = [c \in Callers |-> NoAttempt]
    /\ streak = 0
    /\ openedAt = NoTime
    /\ halfOpenSuccesses = 0
    /\ last_reload = NoTime
    /\ _reload_scheduled = FALSE
    /\ reloadDue = NoTime
    /\ changeTasks = {}
    /\ writes = 0
    /\ wlast = [op |-> "none"]
    /\ ledger = {}
    /\ schema = {}
    /\ runs = [c \in Callers |-> [phase |-> "idle"]]
    /\ glast = [op |-> "none"]
    /\ indexColl = <<>>
    /\ upserts = [c \in Callers |-> [phase |-> "idle"]]
    /\ ilast = [op |-> "none"]
    /\ pageColl = <<>>
    /\ pageCreates = [c \in Callers |-> [phase |-> "idle"]]
    /\ site_url_unique = FALSE
    /\ plast = [op |-> "none"]
    /\ configFile = [value |-> 1, state |-> "ok"]
    /\ _config = 1
    /\ environment = "dev"
    /\ _change_callbacks = <<>>
    /\ reloads = [c \in Callers |-> [phase |-> "idle"]]
    /\ mlast = [op |-> "none"]
    /\ sanIn = [t |-> "none"]
    /\ sanOut = [called |-> FALSE]
    /\ pageDocs = [p \in TxPages |-> Absent]
    /\ queueDocs = [i \in TxTaskIds |-> Absent]
    /\ tlast = [op |-> "none"]
    /\ archDocs \in [DocIds -> {"old", "new"}]
    /\ s3objects = {}
    /\ archive = [phase |-> "idle", run |-> 0]
    /\ dry_run \in BOOLEAN
    /\ blast = NoCall

\* archive_old_documents up to its loop.  `eligible` and `failed` are
\* bookkeeping: the documents older than the cutoff when the run began, and
\* whether an upload of this run has failed.
archive_old_documents_begin ==
    /\ archive.phase # "running"
    /\ archive.run < MaxRuns
    /\ archive' = [phase |-> "running", run |-> archive.run + 1, skip |-> 0,
                   archived_count |-> 0, failed |-> FALSE,
                   eligible |-> {d \in DocIds : archDocs[d] = "old"}]
    /\ UNCHANGED <<now, queueVars, sessionVars, alertVars, changeVars,
                   breakerVars, moreVars, sanitizeVars, txVars, configVars, archDocs,
                   s3objects, dry_run>>

\* One turn of the loop of archive_old_documents: the next page of
\* _get_batches, _archive_batch_to_s3 (which puts the object unless dry_run
\* and answers False when put_object raises), delete_many of the batch
\* after a success, the break after a failure, and the return when the
\* pages are exhausted.
archive_old_documents_batch(upload_ok) ==
    LET batch == _get_batches(archDocs, archive.skip)
        success == dry_run \/ upload_ok
        gone == DeletedAfter(success, batch)
    IN  /\ archive.phase = "running"
        /\ IF batch = <<>>
           THEN /\ upload_ok
                /\ archive' = [archive EXCEPT !.phase = "done"]
                /\ UNCHANGED <<archDocs, s3objects>>
           ELSE /\ s3objects' =
                      IF upload_ok /\ ~dry_run
                      THEN {o \in s3objects :
                              o.key # _generate_archive_key(archive.run, batch)}
                           \cup {[key |-> _generate_archive_key(archive.run,
                                                                batch),
                                  docs |-> batch]}
                      ELSE s3objects
                /\ archDocs' = [d \in DocIds |->
                                  IF d \in gone THEN "absent" ELSE archDocs[d]]
                /\ archive' =
                      IF success
                      THEN [archive EXCEPT
                              !.archived_count =
                                  @ + (IF dry_run THEN Len(batch)
                                       ELSE Cardinality(gone)),
                              !.skip = @ + batch_size]
                      ELSE [archive EXCEPT !.phase = "done",
                                           !.failed = TRUE]
        /\ UNCHANGED <<now, queueVars, sessionVars, alertVars, changeVars,
                       breakerVars, moreVars, sanitizeVars, txVars, configVars,
                       dry_run>>

NextArchive ==
    \/ archive_old_documents_begin
    \/ \E upload_ok \in BOOLEAN : archive_old_documents_batch(upload_ok)

SpecArchive == InitArchive /\ [][NextArchive]_vars

\* ------------------------------------------------------------ configuration
ConfigValues == {1, 2}
\* What load_configuration and validate_configuration make of the files:
\* "unloadable" makes the loader raise, "invalid" makes the validator raise
FileStates == {[value |-> v, state |-> "ok"] : v \in ConfigValues}
              \cup {[value |-> 2, state |-> "unloadable"],
                    [value |-> 2, state |-> "invalid"]}
\* The callables registered as change callbacks: one that returns, one that
\* raises, and one that raises and has no __name__ attribute (a
\* functools.partial, an instance with __call__, a Mock)
Subscribers == {"good", "bad_named", "bad_partial"}
Raises(s) == s # "good"
HasName(s) == s # "bad_partial"
NoReload == [phase |-> "idle"]
\* Environment: DEVELOPMENT and PRODUCTION
Environments == {"dev", "prod"}
\* The updates handed to update_runtime_config, by what merging them gives:
\* the value, and whether BaseConfiguration(**updated_data) accepts it
UpdateChoices == {[value |-> v, valid |-> b] :
                     v \in ConfigValues, b \in BOOLEAN}

InitConfig ==
    /\ now = 0
    /\ tasks = [id \in TaskIds |-> NoTask]
    /\ failCalls = {}
    /\ epochLeases = [id \in TaskIds |-> 0]
    /\ last = NoCall
    /\ sessions = [id \in SessionIds |-> NoSession]
    /\ startCalls = [s \in Sites |-> 0]
    /\ progressCalls = {}
    /\ completeCalls = {}
    /\ siteLastCrawl = [s \in Sites |-> NoTime]
    /\ slast = NoCall
    /\ alerts = [id \in AlertIds |-> Absent]
    /\ suppressions = [ty \in AlertTypes |-> NoTime]
    /\ createCalls = [c \in Callers |-> NoCreate]
    /\ alast = NoCall
    /\ changes = [id \in ChangeIds |-> Absent]
    /\ clast = NoCall
    /\ breaker = NewBreaker
    /\ calls = [c \in Callers |-> NoAttempt]
    /\ streak = 0
    /\ openedAt = NoTime
    /\ halfOpenSuccesses = 0
    /\ last_reload = NoTime
    /\ _reload_scheduled = FALSE
    /\ reloadDue = NoTime
    /\ changeTasks = {}
    /\ writes = 0
    /\ wlast = [op |-> "none"]
    /\ ledger = {}
    /\ schema = {}
    /\ runs = [c \in Callers |-> [phase |-> "idle"]]
    /\ glast = [op |-> "none"]
    /\ indexColl = <<>>
    /\ upserts = [c \in Callers |-> [phase |-> "idle"]]
    /\ ilast = [op |-> "none"]
    /\ pageColl = <<>>
    /\ pageCreates = [c \in Callers |-> [phase |-> "idle"]]
    /\ site_url_unique = FALSE
    /\ plast = [op |-> "none"]
    /\ sanIn = [t |-> "none"]
    /\ sanOut = [called |-> FALSE]
    /\ pageDocs = [p \in TxPages |-> Absent]
    /\ queueDocs = [i \in TxTaskIds |-> Absent]
    /\ tlast = [op |-> "none"]
    /\ archDocs = [d \in DocIds |-> "absent"]
    /\ s3objects = {}
    /\ archive = [phase |-> "idle"]
    /\ dry_run = FALSE
    /\ configFile = [value |-> 1, state |-> "ok"]
    /\ _config = 1
    /\ environment \in Environments
    /\ _change_callbacks = <<>>
    /\ reloads = [c \in Callers |-> NoReload]
    /\ mlast = [op |-> "none"]
    /\ blast = NoCall

\* Somebody edits the configuration files
write_config_file(f) ==
    /\ f # configFile
    /\ configFile' = f
    /\ mlast' = [op |-> "write_config_file"]
    /\ UNCHANGED <<now, queueVars, sessionVars, alertVars, changeVars,
                   breakerVars, moreVars, sanitizeVars, txVars, archiveVars, _config,
                   environment, _change_callbacks, reloads>>

\* register_change_callback: appends, whether or not it is there already
register_change_callback(s) ==
    /\ Len(_change_callbacks) < MaxCallbacks
    /\ _change_callbacks' = Append(_change_callbacks, s)
    /\ mlast' = [op |-> "register_change_callback", callback |-> s]
    /\ UNCHANGED <<now, queueVars, sessionVars, alertVars, changeVars,
                   breakerVars, moreVars, sanitizeVars, txVars, archiveVars, configFile,
                   _config, environment, reloads>>

\* Mutant of _notify_change_callbacks: the loop ends at the first callback
\* that raises, and the exception is swallowed.
_notify_change_callbacks_stops(callbacks, new_config) ==
    LET bad == {i \in DOMAIN callbacks : Raises(callbacks[i])}
        stop == IF bad = {} THEN Len(callbacks) ELSE MinOf(bad)
    IN  [invoked |-> [i \in 1..stop |-> <<callbacks[i], new_config>>],
         raised |-> FALSE]

\* _notify_change_callbacks: calls the callbacks in order; an exception of
\* a callback is caught and logged with callback.__name__, and for a
\* callback without that attribute the handler itself raises
\* AttributeError, which leaves the loop and the method
_notify_change_callbacks(callbacks, new_config) ==
    LET bad == {i \in DOMAIN callbacks :
                   Raises(callbacks[i]) /\ ~HasName(callbacks[i])}
        stop == IF bad = {} THEN Len(callbacks) ELSE MinOf(bad)
    IN  [invoked |-> [i \in 1..stop |-> <<callbacks[i], new_config>>],
         raised |-> bad # {}]

\* Mutant of validate_configuration: errors are only warned about.
validate_configuration_warns(new_config) == TRUE

\* ConfigurationValidator.validate_configuration: raises
\* ConfigurationValidationError when it finds errors
validate_configuration(new_config) == new_config.state # "invalid"

\* reload_configuration up to `await validate_configuration`: the loader
\* reads the files; when it raises, the call returns False
reload_configuration_load(c) ==
    /\ reloads[c] = NoReload
    /\ IF configFile.state = "unloadable"
       THEN /\ reloads' = reloads
            /\ mlast' = [op |-> "reload_configuration", caller |-> c,
                         ret |-> FALSE, failed |-> "load",
                         notified |-> <<>>]
       ELSE /\ reloads' = [reloads EXCEPT ![c] =
                              [phase |-> "validating",
                               new_config |-> configFile]]
            /\ mlast' = [op |-> "reload_configuration_load", caller |-> c]
    /\ UNCHANGED <<now, queueVars, sessionVars, alertVars, changeVars,
                   breakerVars, moreVars, sanitizeVars, txVars, archiveVars, configFile,
                   _config, environment, _change_callbacks>>

\* reload_configuration from the answer of validate_configuration on: on
\* a validation error the call returns False; otherwise _config is
\* replaced, the callbacks are notified, and the call returns True, unless
\* the notification raised: then _config is set back to old_config and the
\* call returns False
reload_configuration_commit(c) ==
    LET new_config == reloads[c].new_config
        old_config == _config
        told == _notify_change_callbacks(_change_callbacks,
                                         new_config.value)
    IN  /\ reloads[c] # NoReload
        /\ reloads' = [reloads EXCEPT ![c] = NoReload]
        /\ IF ~validate_configuration(new_config)
           THEN /\ _config' = _config
                /\ mlast' = [op |-> "reload_configuration", caller |-> c,
                             ret |-> FALSE, failed |-> "validate",
                             notified |-> <<>>]
           ELSE IF told.raised
           THEN /\ _config' = old_config
                /\ mlast' = [op |-> "reload_configuration", caller |-> c,
                             ret |-> FALSE, failed |-> "notify",
                             notified |-> told.invoked]
           ELSE /\ _config' = new_config.value
                /\ mlast' = [op |-> "reload_configuration", caller |-> c,
                             ret |-> TRUE, failed |-> NoStr,
                             notified |-> told.invoked]
        /\ UNCHANGED <<now, queueVars, sessionVars, alertVars, changeVars,
                       breakerVars, moreVars, sanitizeVars, txVars, archiveVars,
                       configFile, environment, _change_callbacks>>

\* Mutant of RuntimeUpdateRefused: the production check is missing.
RuntimeUpdateRefusedNever(env) == FALSE

\* update_runtime_config: _config.environment == Environment.PRODUCTION
RuntimeUpdateRefused(env) == env = "prod"

\* update_runtime_config(updates): refused in production; otherwise the
\* merged data are made a BaseConfiguration, which raises when they are
\* invalid; then _config is replaced and the callbacks are notified.  An
\* exception of the notification is raised again as
\* ConfigurationUpdateError, with the new _config left in place.
update_runtime_config(updates) ==
    LET told == _notify_change_callbacks(_change_callbacks, updates.value)
    IN  /\ IF RuntimeUpdateRefused(environment)
           THEN /\ _config' = _config
                /\ mlast' = [op |-> "update_runtime_config",
                             updates |-> updates, ret |-> FALSE,
                             raised |-> "ConfigurationUpdateError",
                             failed |-> "production", notified |-> <<>>]
           ELSE IF ~updates.valid
           THEN /\ _config' = _config
                /\ mlast' = [op |-> "update_runtime_config",
                             updates |-> updates, ret |-> FALSE,
                             raised |-> "ConfigurationUpdateError",
                             failed |-> "validate", notified |-> <<>>]
           ELSE /\ _config' = updates.value
                /\ mlast' = [op |-> "update_runtime_config",
                             updates |-> updates, ret |-> ~told.raised,
                             raised |-> IF told.raised
                                        THEN "ConfigurationUpdateError"
                                        ELSE NoStr,
                             failed |-> IF told.raised THEN "notify"
                                        ELSE NoStr,
                             notified |-> told.invoked]
        /\ UNCHANGED <<now, queueVars, sessionVars, alertVars, changeVars,
                       breakerVars, moreVars, sanitizeVars, txVars, archiveVars,
                       configFile, environment, _change_callbacks, reloads>>

NextConfig ==
    \/ \E f \in FileStates : write_config_file(f)
    \/ \E s \in Subscribers : register_change_callback(s)
    \/ \E c \in Callers : reload_configuration_load(c)
    \/ \E c \in Callers : reload_configuration_commit(c)
    \/ \E updates \in UpdateChoices : update_runtime_config(updates)

SpecConfig == InitConfig /\ [][NextConfig]_vars

\* ------------------------------------------------------------ pages
\* The sites asked for: 0 has no crawl configuration, 1 and 2 have one
PageSiteIds == {0, 1, 2}
KnownSites == {1, 2}
\* A URL by the parts _normalize_url looks at: the path without its
\* trailing slash, whether it ends in a slash, whether it has a fragment
PageUrls == [path : {"a", "b"}, slash : BOOLEAN, fragment : BOOLEAN]

\* _normalize_url: scheme, host and path are kept, the trailing slash is
\* stripped and the fragment is not copied.
_normalize_url(url) == [path |-> url.path, slash |-> FALSE, fragment |-> FALSE]

\* find_one({"site_id": site_id, "url": normalized_url}) finds a page
PageExists(coll, site_id, url) ==
    \E i \in 1..Len(coll) : coll[i].site_id = site_id /\ coll[i].url = url

InitPages ==
    /\ now = 0
    /\ tasks = [id \in TaskIds |-> NoTask]
    /\ failCalls = {}
    /\ epochLeases = [id \in TaskIds |-> 0]
    /\ last = NoCall
    /\ sessions = [id \in SessionIds |-> NoSession]
    /\ startCalls = [site \in Sites |-> 0]
    /\ progressCalls = {}
    /\ completeCalls = {}
    /\ siteLastCrawl = [site \in Sites |-> NoTime]
    /\ slast = NoCall
    /\ alerts = [id \in AlertIds |-> Absent]
    /\ suppressions = [type \in AlertTypes |-> NoTime]
    /\ createCalls = [c \in Callers |-> NoCreate]
    /\ alast = NoCall
    /\ changes = [id \in ChangeIds |-> Absent]
    /\ clast = NoCall
    /\ breaker = NewBreaker
    /\ calls = [c \in Callers |-> NoAttempt]
    /\ streak = 0
    /\ openedAt = NoTime
    /\ halfOpenSuccesses = 0
    /\ last_reload = NoTime
    /\ _reload_scheduled = FALSE
    /\ reloadDue = NoTime
    /\ changeTasks = {}
    /\ writes = 0
    /\ wlast = [op |-> "none"]
    /\ ledger = {}
    /\ schema = {}
    /\ runs = [c \in Callers |-> [phase |-> "idle"]]
    /\ glast = [op |-> "none"]
    /\ indexColl = <<>>
    /\ upserts = [c \in Callers |-> [phase |-> "idle"]]
    /\ ilast = [op |-> "none"]
    /\ pageColl = <<>>
    /\ pageCreates = [c \in Callers |-> [phase |-> "idle"]]
    /\ site_url_unique \in BOOLEAN
    /\ plast = [op |-> "none"]
    /\ configFile = [value |-> 1, state |-> "ok"]
    /\ _config = 1
    /\ environment = "dev"
    /\ _change_callbacks = <<>>
    /\ reloads = [c \in Callers |-> [phase |-> "idle"]]
    /\ mlast = [op |-> "none"]
    /\ archDocs = [d \in 1..MaxDocs |-> "absent"]
    /\ s3objects = {}
    /\ archive = [phase |-> "idle"]
    /\ dry_run = FALSE
    /\ pageDocs = [p \in {1, 2} |-> [status |-> "absent"]]
    /\ queueDocs = [i \in {1, 2} |-> [status |-> "absent"]]
    /\ tlast = [op |-> "none"]
    /\ sanIn = [t |-> "none"]
    /\ sanOut = [called |-> FALSE]
    /\ blast = NoCall

\* create_page up to the duplicate check: the site's crawl configuration is
\* looked up, the URL is normalized and find_one looks for a page of the site
\* with the normalized URL.  A missing site and a page found end the call
\* with an exception; otherwise the call goes on to insert_one, which is
\* another await.
create_page_find(c, site_id, url) ==
    /\ pageCreates[c].phase = "idle"
    /\ IF site_id \notin KnownSites
       THEN /\ plast' = [op |-> "create_page", caller |-> c,
                         site_id |-> site_id, url |-> url,
                         raised |-> "PydanticCustomError", inserted |-> FALSE,
                         existed |-> FALSE]
            /\ UNCHANGED pageCreates
       ELSE IF PageExists(pageColl, site_id, _normalize_url(url))
       THEN /\ plast' = [op |-> "create_page", caller |-> c,
                         site_id |-> site_id, url |-> url,
                         raised |-> "DuplicateResourceError",
                         inserted |-> FALSE, existed |-> TRUE]
            /\ UNCHANGED pageCreates
       ELSE /\ plast' = [op |-> "create_page_find", caller |-> c,
                         site_id |-> site_id, url |-> url]
            /\ pageCreates' = [pageCreates EXCEPT ![c] =
                                  [phase |-> "checked", site_id |-> site_id,
                                   url |-> url,
                                   normalized_url |-> _normalize_url(url)]]
    /\ UNCHANGED <<notPages, pageColl, site_url_unique>>

\* create_page from insert_one on: the page document is inserted.  Where the
\* collection has the unique index the server refuses a second document
\* with the key, and _with_retry raises that as RepositoryError.
create_page_insert(c) ==
    /\ pageCreates[c].phase = "checked"
    /\ Len(pageColl) < MaxPages
    /\ LET call == pageCreates[c]
           refused == site_url_unique /\
                      PageExists(pageColl, call.site_id, call.normalized_url)
       IN  /\ pageColl' = IF refused THEN pageColl
                          ELSE Append(pageColl,
                                      [site_id |-> call.site_id,
                                       url |-> call.normalized_url])
           /\ plast' = [op |-> "create_page", caller |-> c,
                        site_id |-> call.site_id, url |-> call.url,
                        raised |-> IF refused THEN "RepositoryError"
                                   ELSE NoStr,
                        inserted |-> ~refused,
                        existed |-> PageExists(pageColl, call.site_id,
                                               call.normalized_url)]
    /\ pageCreates' = [pageCreates EXCEPT ![c] = [phase |-> "idle"]]
    /\ UNCHANGED <<notPages, site_url_unique>>

NextPages ==
    \/ \E c \in Callers, site_id \in PageSiteIds, url \in PageUrls :
          create_page_find(c, site_id, url)
    \/ \E c \in Callers : create_page_insert(c)

SpecPages == InitPages /\ [][NextPages]_vars

\* ------------------------------------------------------------ content index
IndexPageIds == {1, 2}
\* search_content of the ContentIndex handed in
IndexContents == {"x", "y"}

\* The position of the first entry of the page, 0 when it has none: the
\* document find_one returns and update_one changes
FirstEntry(coll, page_id) ==
    IF \E i \in 1..Len(coll) : coll[i].page_id = page_id
    THEN CHOOSE i \in 1..Len(coll) :
            /\ coll[i].page_id = page_id
            /\ \A j \in 1..(i - 1) : coll[j].page_id # page_id
    ELSE 0

InitContentIndex ==
    /\ now = 0
    /\ tasks = [id \in TaskIds |-> NoTask]
    /\ failCalls = {}
    /\ epochLeases = [id \in TaskIds |-> 0]
    /\ last = NoCall
    /\ sessions = [id \in SessionIds |-> NoSession]
    /\ startCalls = [site \in Sites |-> 0]
    /\ progressCalls = {}
    /\ completeCalls = {}
    /\ siteLastCrawl = [site \in Sites |-> NoTime]
    /\ slast = NoCall
    /\ alerts = [id \in AlertIds |-> Absent]
    /\ suppressions = [type \in AlertTypes |-> NoTime]
    /\ createCalls = [c \in Callers |-> NoCreate]
    /\ alast = NoCall
    /\ changes = [id \in ChangeIds |-> Absent]
    /\ clast = NoCall
    /\ breaker = NewBreaker
    /\ calls = [c \in Callers |-> NoAttempt]
    /\ streak = 0
    /\ openedAt = NoTime
    /\ halfOpenSuccesses = 0
    /\ last_reload = NoTime
    /\ _reload_scheduled = FALSE
    /\ reloadDue = NoTime
    /\ changeTasks = {}
    /\ writes = 0
    /\ wlast = [op |-> "none"]
    /\ ledger = {}
    /\ schema = {}
    /\ runs = [c \in Callers |-> [phase |-> "idle"]]
    /\ glast = [op |-> "none"]
    /\ indexColl = <<>>
    /\ upserts = [c \in Callers |-> [phase |-> "idle"]]
    /\ ilast = [op |-> "none"]
    /\ pageColl = <<>>
    /\ pageCreates = [c \in Callers |-> [phase |-> "idle"]]
    /\ site_url_unique = FALSE
    /\ plast = [op |-> "none"]
    /\ configFile = [value |-> 1, state |-> "ok"]
    /\ _config = 1
    /\ environment = "dev"
    /\ _change_callbacks = <<>>
    /\ reloads = [c \in Callers |-> [phase |-> "idle"]]
    /\ mlast = [op |-> "none"]
    /\ archDocs = [d \in 1..MaxDocs |-> "absent"]
    /\ s3objects = {}
    /\ archive = [phase |-> "idle"]
    /\ dry_run = FALSE
    /\ pageDocs = [p \in {1, 2} |-> [status |-> "absent"]]
    /\ queueDocs = [i \in {1, 2} |-> [status |-> "absent"]]
    /\ tlast = [op |-> "none"]
    /\ sanIn = [t |-> "none"]
    /\ sanOut = [called |-> FALSE]
    /\ blast = NoCall

\* create_content_index: the document is inserted, whatever the collection
\* holds; the new document's id is returned.
create_content_index(c, page_id, content) ==
    /\ upserts[c].phase = "idle"
    /\ Len(indexColl) < MaxEntries
    /\ indexColl' = Append(indexColl,
                           [page_id |-> page_id, search_content |-> content])
    /\ ilast' = [op |-> "create_content_index", caller |-> c,
                 page_id |-> page_id, ret |-> Len(indexColl) + 1,
                 existed |-> FirstEntry(indexColl, page_id) # 0,
                 inserted |-> TRUE]
    /\ UNCHANGED <<notIndex, upserts>>

\* upsert_content_index up to the end of get_by_page_id
upsert_content_index_find(c, page_id, content) ==
    /\ upserts[c].phase = "idle"
    /\ upserts' = [upserts EXCEPT ![c] =
                      [phase |-> "found", page_id |-> page_id,
                       content |-> content,
                       existing |-> FirstEntry(indexColl, page_id)]]
    /\ ilast' = [op |-> "get_by_page_id", caller |-> c, page_id |-> page_id,
                 ret |-> FirstEntry(indexColl, page_id)]
    /\ UNCHANGED <<notIndex, indexColl>>

\* upsert_content_index after get_by_page_id: with an entry found,
\* update_content_index sets the fields on the first entry of the page and
\* the found entry's id is returned; with none found, create_content_index
\* inserts.
upsert_content_index_write(c) ==
    /\ upserts[c].phase = "found"
    /\ LET call == upserts[c]
           target == FirstEntry(indexColl, call.page_id)
       IN  /\ call.existing = 0 => Len(indexColl) < MaxEntries
           /\ indexColl' =
                 IF call.existing # 0
                 THEN IF target # 0
                      THEN [indexColl EXCEPT ![target].search_content =
                                                call.content]
                      ELSE indexColl
                 ELSE Append(indexColl, [page_id |-> call.page_id,
                                         search_content |-> call.content])
           /\ ilast' = [op |-> "upsert_content_index", caller |-> c,
                        page_id |-> call.page_id,
                        ret |-> IF call.existing # 0 THEN call.existing
                                ELSE Len(indexColl) + 1,
                        existed |-> target # 0,
                        inserted |-> call.existing = 0]
    /\ upserts' = [upserts EXCEPT ![c] = [phase |-> "idle"]]
    /\ UNCHANGED notIndex

NextContentIndex ==
    \/ \E c \in Callers, page_id \in IndexPageIds, content \in IndexContents :
          create_content_index(c, page_id, content)
    \/ \E c \in Callers, page_id \in IndexPageIds, content \in IndexContents :
          upsert_content_index_find(c, page_id, content)
    \/ \E c \in Callers : upsert_content_index_write(c)

SpecContentIndex == InitContentIndex /\ [][NextContentIndex]_vars

\* ------------------------------------------------------------ migrations
\* _load_migrations: the registered versions
Registered == 1..MaxVersion
\* target_version: None, written NoTarget, or a version
NoTarget == -1
Targets == {NoTarget} \cup Registered
\* how a migration's up or down step ends
StepOutcomes == {"ok", "fail"}

\* get_current_version: the highest version of the ledger, 0 when empty
get_current_version(entries) == IF entries = {} THEN 0 ELSE MaxOf(entries)

\* The versions of a set as a list, sorted by version
SortedByVersion(S) ==
    CHOOSE seq \in [1..Cardinality(S) -> S] :
        \A i, j \in 1..Cardinality(S) : i < j => seq[i] < seq[j]

\* Mutant of migrations_to_run: the current version is taken again.
migrations_to_run_from_current(current_version, target_version) ==
    SortedByVersion({m \in Registered :
        /\ m >= current_version
        /\ target_version = NoTarget \/ m <= target_version})

\* run_migrations: [m for m in migrations if m.version > current_version],
\* then the ones up to the target when there is one
migrations_to_run(current_version, target_version) ==
    SortedByVersion({m \in Registered :
        /\ m > current_version
        /\ target_version = NoTarget \/ m <= target_version})

InitMigrations ==
    /\ now = 0
    /\ tasks = [id \in TaskIds |-> NoTask]
    /\ failCalls = {}
    /\ epochLeases = [id \in TaskIds |-> 0]
    /\ last = NoCall
    /\ sessions = [id \in SessionIds |-> NoSession]
    /\ startCalls = [site \in Sites |-> 0]
    /\ progressCalls = {}
    /\ completeCalls = {}
    /\ siteLastCrawl = [site \in Sites |-> NoTime]
    /\ slast = NoCall
    /\ alerts = [id \in AlertIds |-> Absent]
    /\ suppressions = [type \in AlertTypes |-> NoTime]
    /\ createCalls = [c \in Callers |-> NoCreate]
    /\ alast = NoCall
    /\ changes = [id \in ChangeIds |-> Absent]
    /\ clast = NoCall
    /\ breaker = NewBreaker
    /\ calls = [c \in Callers |-> NoAttempt]
    /\ streak = 0
    /\ openedAt = NoTime
    /\ halfOpenSuccesses = 0
    /\ last_reload = NoTime
    /\ _reload_scheduled = FALSE
    /\ reloadDue = NoTime
    /\ changeTasks = {}
    /\ writes = 0
    /\ wlast = [op |-> "none"]
    /\ ledger = {}
    /\ schema = {}
    /\ runs = [c \in Callers |-> [phase |-> "idle"]]
    /\ glast = [op |-> "none"]
    /\ indexColl = <<>>
    /\ upserts = [c \in Callers |-> [phase |-> "idle"]]
    /\ ilast = [op |-> "none"]
    /\ pageColl = <<>>
    /\ pageCreates = [c \in Callers |-> [phase |-> "idle"]]
    /\ site_url_unique = FALSE
    /\ plast = [op |-> "none"]
    /\ configFile = [value |-> 1, state |-> "ok"]
    /\ _config = 1
    /\ environment = "dev"
    /\ _change_callbacks = <<>>
    /\ reloads = [c \in Callers |-> [phase |-> "idle"]]
    /\ mlast = [op |-> "none"]
    /\ archDocs = [d \in 1..MaxDocs |-> "absent"]
    /\ s3objects = {}
    /\ archive = [phase |-> "idle"]
    /\ dry_run = FALSE
    /\ pageDocs = [p \in {1, 2} |-> [status |-> "absent"]]
    /\ queueDocs = [i \in {1, 2} |-> [status |-> "absent"]]
    /\ tlast = [op |-> "none"]
    /\ sanIn = [t |-> "none"]
    /\ sanOut = [called |-> FALSE]
    /\ blast = NoCall

\* run_migrations up to its loop: the current version is read and the
\* migrations to run are chosen; with none it returns.
run_migrations_begin(c, target_version) ==
    /\ runs[c].phase = "idle"
    /\ LET current_version == get_current_version(ledger)
           todo == migrations_to_run(current_version, target_version)
       IN  IF todo = <<>>
           THEN /\ glast' = [op |-> "run_migrations", caller |-> c,
                             current_version |-> current_version,
                             target_version |-> target_version,
                             applied |-> <<>>, raised |-> NoStr,
                             failed |-> 0]
                /\ UNCHANGED runs
           ELSE /\ glast' = [op |-> "run_migrations_begin", caller |-> c]
                /\ runs' = [runs EXCEPT ![c] =
                               [phase |-> "running",
                                current_version |-> current_version,
                                target_version |-> target_version,
                                todo |-> todo, applied |-> <<>>]]
    /\ UNCHANGED <<notMigrations, ledger, schema>>

\* One pass of the loop of run_migrations: in one transaction the
\* migration's up step runs and its ledger entry is inserted, which the
\* unique index on version refuses for a version already there.  When either
\* raises the transaction is aborted and the exception ends run_migrations.
run_migrations_step(c, outcome) ==
    /\ runs[c].phase = "running"
    /\ LET run == runs[c]
           migration == Head(run.todo)
           committed == outcome = "ok" /\ migration \notin ledger
           applied == IF committed THEN Append(run.applied, migration)
                      ELSE run.applied
           done == ~committed \/ Tail(run.todo) = <<>>
       IN  /\ schema' = IF committed THEN schema \cup {migration} ELSE schema
           /\ ledger' = IF committed THEN ledger \cup {migration} ELSE ledger
           /\ runs' = [runs EXCEPT ![c] =
                          IF done THEN [phase |-> "idle"]
                          ELSE [run EXCEPT !.todo = Tail(run.todo),
                                           !.applied = applied]]
           /\ glast' = [op |-> IF done THEN "run_migrations"
                               ELSE "run_migrations_step",
                        caller |-> c,
                        current_version |-> run.current_version,
                        target_version |-> run.target_version,
                        applied |-> applied,
                        raised |-> IF committed THEN NoStr ELSE "Exception",
                        failed |-> IF committed THEN 0 ELSE migration]
    /\ UNCHANGED notMigrations

\* rollback_migration(version): refused for a version at or above the
\* current one and for a version that is not registered; otherwise the
\* migration's down step runs and its ledger entry is deleted in one
\* transaction, which is aborted when the down step raises.
rollback_migration(version, outcome) ==
    /\ LET current_version == get_current_version(ledger)
           refused == version >= current_version \/ version \notin Registered
           committed == ~refused /\ outcome = "ok"
       IN  /\ schema' = IF committed THEN schema \ {version} ELSE schema
           /\ ledger' = IF committed THEN ledger \ {version} ELSE ledger
           /\ glast' = [op |-> "rollback_migration", version |-> version,
                        current_version |-> current_version,
                        ran_down |-> IF refused THEN <<>> ELSE <<version>>,
                        raised |-> IF ~refused /\ outcome = "fail"
                                   THEN "Exception" ELSE NoStr]
    /\ UNCHANGED <<notMigrations, runs>>

NextMigrations ==
    \/ \E c \in Callers, target_version \in Targets :
          run_migrations_begin(c, target_version)
    \/ \E c \in Callers, outcome \in StepOutcomes :
          run_migrations_step(c, outcome)
    \/ \E version \in 0..MaxVersion, outcome \in StepOutcomes :
          rollback_migration(version, outcome)

SpecMigrations == InitMigrations /\ [][NextMigrations]_vars

\* ------------------------------------------------------------ file watcher
\* Time is counted in half seconds here.
\* debounce_seconds = 2.0
debounce_seconds == 4
\* _handle_config_change: asyncio.sleep(0.5)
handle_delay == 1
\* delayed_reload: time.sleep(1.0)
reload_delay == 2

\* reload_configuration as one step: the configuration it leaves in
\* _config, given the file, the live configuration and the callbacks
reload_configuration(file, config, callbacks) ==
    IF file.state = "unloadable" THEN config
    ELSE IF ~validate_configuration(file) THEN config
    ELSE IF _notify_change_callbacks(callbacks, file.value).raised THEN config
    ELSE file.value

InitWatch ==
    /\ now = 0
    /\ tasks = [id \in TaskIds |-> NoTask]
    /\ failCalls = {}
    /\ epochLeases = [id \in TaskIds |-> 0]
    /\ last = NoCall
    /\ sessions = [id \in SessionIds |-> NoSession]
    /\ startCalls = [site \in Sites |-> 0]
    /\ progressCalls = {}
    /\ completeCalls = {}
    /\ siteLastCrawl = [site \in Sites |-> NoTime]
    /\ slast = NoCall
    /\ alerts = [id \in AlertIds |-> Absent]
    /\ suppressions = [type \in AlertTypes |-> NoTime]
    /\ createCalls = [c \in Callers |-> NoCreate]
    /\ alast = NoCall
    /\ changes = [id \in ChangeIds |-> Absent]
    /\ clast = NoCall
    /\ breaker = NewBreaker
    /\ calls = [c \in Callers |-> NoAttempt]
    /\ streak = 0
    /\ openedAt = NoTime
    /\ halfOpenSuccesses = 0
    /\ last_reload = NoTime
    /\ _reload_scheduled = FALSE
    /\ reloadDue = NoTime
    /\ changeTasks = {}
    /\ writes = 0
    /\ wlast = [op |-> "none"]
    /\ ledger = {}
    /\ schema = {}
    /\ runs = [c \in Callers |-> [phase |-> "idle"]]
    /\ glast = [op |-> "none"]
    /\ indexColl = <<>>
    /\ upserts = [c \in Callers |-> [phase |-> "idle"]]
    /\ ilast = [op |-> "none"]
    /\ pageColl = <<>>
    /\ pageCreates = [c \in Callers |-> [phase |-> "idle"]]
    /\ site_url_unique = FALSE
    /\ plast = [op |-> "none"]
    /\ configFile = [value |-> 1, state |-> "ok"]
    /\ _config = 1
    /\ environment = "dev"
    /\ _change_callbacks = <<>>
    /\ reloads = [c \in Callers |-> [phase |-> "idle"]]
    /\ mlast = [op |-> "none"]
    /\ archDocs = [d \in 1..MaxDocs |-> "absent"]
    /\ s3objects = {}
    /\ archive = [phase |-> "idle"]
    /\ dry_run = FALSE
    /\ pageDocs = [p \in {1, 2} |-> [status |-> "absent"]]
    /\ queueDocs = [i \in {1, 2} |-> [status |-> "absent"]]
    /\ tlast = [op |-> "none"]
    /\ sanIn = [t |-> "none"]
    /\ sanOut = [called |-> FALSE]
    /\ blast = NoCall

\* No timer of the watcher is due
NoTimerDue ==
    /\ _reload_scheduled => now < reloadDue
    /\ \A due \in changeTasks : now < due

TickWatch ==
    /\ now < MaxWatchTime
    /\ NoTimerDue
    /\ now' = now + 1
    /\ wlast' = [op |-> "tick"]
    /\ UNCHANGED <<notWatch, configVars, last_reload, _reload_scheduled,
                   reloadDue, changeTasks, writes>>

\* on_modified: now - last_time < self.debounce_seconds, where a file
\* without an entry counts as reloaded at 0, long before any time.time()
Debounced(t, last_time) ==
    last_time # NoTime /\ t - last_time < debounce_seconds

\* The watched file is written and the observer calls on_modified.  An
\* event inside the debounce window is dropped.  Otherwise last_reload is
\* set and, on a thread with a running event loop, a _handle_config_change
\* task is created; on the observer's thread create_task raises RuntimeError
\* and _schedule_reload is called, which returns when a reload is scheduled
\* already and else starts the delayed_reload thread.
on_modified(f, running_loop) ==
    /\ writes < MaxWrites
    /\ f # configFile
    /\ configFile' = f
    /\ writes' = writes + 1
    /\ IF Debounced(now, last_reload)
       THEN /\ wlast' = [op |-> "on_modified", accepted |-> FALSE]
            /\ UNCHANGED <<last_reload, _reload_scheduled, reloadDue,
                           changeTasks>>
       ELSE /\ last_reload' = now
            /\ wlast' = [op |-> "on_modified", accepted |-> TRUE]
            /\ IF running_loop
               THEN /\ changeTasks' = changeTasks \cup {now + handle_delay}
                    /\ UNCHANGED <<_reload_scheduled, reloadDue>>
               ELSE /\ _reload_scheduled' = TRUE
                    /\ reloadDue' = IF _reload_scheduled THEN reloadDue
                                    ELSE now + reload_delay
                    /\ UNCHANGED changeTasks
    /\ UNCHANGED <<now, notWatch, _config, environment, _change_callbacks,
                   reloads, mlast>>

\* _handle_config_change after its sleep: reload_configuration
_handle_config_change(due) ==
    /\ due \in changeTasks
    /\ now >= due
    /\ changeTasks' = changeTasks \ {due}
    /\ _config' = reload_configuration(configFile, _config, _change_callbacks)
    /\ wlast' = [op |-> "_handle_config_change", read |-> configFile]
    /\ UNCHANGED <<now, notWatch, configFile, environment, _change_callbacks,
                   reloads, mlast, last_reload, _reload_scheduled, reloadDue,
                   writes>>

\* delayed_reload after its sleep: reload_configuration, then
\* _reload_scheduled is cleared
delayed_reload ==
    /\ _reload_scheduled
    /\ now >= reloadDue
    /\ _reload_scheduled' = FALSE
    /\ reloadDue' = NoTime
    /\ _config' = reload_configuration(configFile, _config, _change_callbacks)
    /\ wlast' = [op |-> "delayed_reload", read |-> configFile]
    /\ UNCHANGED <<now, notWatch, configFile, environment, _change_callbacks,
                   reloads, mlast, last_reload, changeTasks, writes>>

NextWatch ==
    \/ TickWatch
    \/ \E f \in FileStates, running_loop \in BOOLEAN :
          on_modified(f, running_loop)
    \/ \E due \in changeTasks : _handle_config_change(due)
    \/ delayed_reload

SpecWatch == InitWatch /\ [][NextWatch]_vars

\* Time passes, and a thread or task whose sleep is over runs.
SpecWatchFair ==
    /\ SpecWatch
    /\ WF_vars(TickWatch)
    /\ WF_vars(delayed_reload)
    /\ WF_vars(\E due \in changeTasks : _handle_config_change(due))

\* ------------------------------------------------------------ queue claims
\* Eligibility as the specification defines it: pending, due, of the
\* requested type, and every dependency completed.
Eligible(id, type) ==
    /\ Present(id)
    /\ tasks[id].status = "pending"
    /\ tasks[id].scheduled_at <= now
    /\ type = NoStr \/ tasks[id].task_type = type
    /\ \A d \in tasks[id].dependencies :
          d \in TaskIds /\ Present(d) /\ tasks[d].status = "completed"

\* C1: concurrent dequeues never lease one task twice.  Each dequeue is one
\* atomic find-and-update, so concurrent calls take effect in some order:
\* every dequeue that returns a task found it pending and left it
\* processing, and it is the only dequeue that returned the task while it
\* has been processing.
C1_AtomicLease ==
    [][(last'.op = "dequeue_next_task" /\ last'.ret # 0) =>
          /\ tasks[last'.ret].status = "pending"
          /\ tasks'[last'.ret].status = "processing"
          /\ epochLeases'[last'.ret] = 1]_vars

\* C1 witness: two dequeues have returned, each its own task.
C1_Witness ==
    /\ last.op = "dequeue_next_task"
    /\ last.ret # 0
    /\ \E other \in TaskIds \ {last.ret} :
          tasks[other].status = "processing" /\ epochLeases[other] = 1

C3_OnlyEligibleLeased ==
    [][(last'.op = "dequeue_next_task" /\ last'.ret # 0) =>
          Eligible(last'.ret, NoStr)]_vars

\* C5: fail_task with retry allowed and retry_count = r < max_retries makes
\* the task pending, scheduled min(60 * 2^r, 3600) seconds later, with
\* retry_count = r + 1.
C5_Backoff(r) == IF 60 * (2 ^ r) <= 3600 THEN 60 * (2 ^ r) ELSE 3600

C5_RetryWithBackoff ==
    [][\A c \in failCalls :
          (fail_task_update(c) /\ c.retry /\ c.retry_count < c.max_retries) =>
            /\ tasks'[c.id].status = "pending"
            /\ tasks'[c.id].scheduled_at = now + C5_Backoff(c.retry_count)
            /\ tasks'[c.id].retry_count = c.retry_count + 1]_vars

\* C6: fail_task with retry_count = max_retries, or with retry = false,
\* marks the task failed and stamps failed_at.
C6_FailedWhenExhausted ==
    [][\A c \in failCalls :
          (fail_task_update(c)
             /\ (~c.retry \/ c.retry_count = c.max_retries)) =>
            /\ tasks'[c.id].status = "failed"
            /\ tasks'[c.id].failed_at = now]_vars

\* C7: retry_failed_tasks(ids) resets exactly the listed failed tasks to
\* pending, due now, retry_count 0, and changes no other task.
C7_ManualRetryFrame ==
    [][\A ids \in (SUBSET TaskIds) \ {{}} :
          retry_failed_tasks(ids) =>
            \A id \in TaskIds :
               IF id \in ids /\ tasks[id].status = "failed"
               THEN /\ tasks'[id].status = "pending"
                    /\ tasks'[id].scheduled_at = now
                    /\ tasks'[id].retry_count = 0
               ELSE tasks'[id] = tasks[id]]_vars

\* C8: complete_task completes a processing task and returns true; on any
\* other task it returns false and changes nothing.
C8_CompleteOnlyProcessing ==
    [][\A id \in TaskIds, result \in {"result", "not_serializable"} :
          complete_task(id, result) =>
            IF tasks[id].status = "processing"
            THEN /\ tasks'[id].status = "completed"
                 /\ tasks'[id].completed_at = now
                 /\ last'.ret = TRUE
            ELSE tasks' = tasks /\ last'.ret = FALSE]_vars
\* ------------------------------------------------------------ session claims
RunningCount(site) ==
    Cardinality({id \in SessionIds :
        sessions[id] # NoSession /\ sessions[id].site_id = site
        /\ sessions[id].status = "running"})

\* C9: no site ever has more running sessions than max_concurrent_sessions,
\* and a start that finds the site at its limit is rejected and inserts
\* nothing.
C9_SessionCap ==
    /\ \A site \in Sites : RunningCount(site) <= CapOf[site]
    /\ (slast.op = "start_crawl_session"
          /\ slast.error = "Maximum concurrent sessions") => slast.ret = 0

\* C10: update_session_progress changes no session other than a running
\* one, and on a completed, aborted or failed session it returns false and
\* leaves the collection as it was.
C10_ProgressOnlyWhileRunning ==
    [][slast'.op = "update_session_progress" =>
          /\ \A id \in SessionIds :
                sessions'[id] # sessions[id] =>
                   id = slast'.id /\ sessions[id].status = "running"
          /\ sessions[slast'.id].status \in TerminalStatuses =>
                slast'.ret = FALSE /\ sessions' = sessions]_vars

\* C10 witness: progress was reported for a completed session, after time
\* has passed since its last write, and was refused.
C10_Witness ==
    /\ slast.op = "update_session_progress"
    /\ slast.ret = FALSE
    /\ sessions[slast.id].status = "completed"
    /\ sessions[slast.id].updated_at < now

\* C11: a complete_crawl_session or abort_session call leaves the status,
\* the final counters, completed_at and abort_reason of every session that
\* is completed, aborted or failed as they were; and a session that becomes
\* completed was running just before (so none is completed twice).
C11_TerminalImmutable ==
    [][/\ slast'.op \in {"complete_crawl_session_find",
                         "complete_crawl_session", "abort_session"} =>
            \A id \in SessionIds :
               sessions[id].status \in TerminalStatuses =>
                  /\ sessions'[id].status = sessions[id].status
                  /\ sessions'[id].completed_at = sessions[id].completed_at
                  /\ sessions'[id].abort_reason = sessions[id].abort_reason
                  /\ \A key \in CounterKeys :
                        sessions'[id][key] = sessions[id][key]
       /\ \A id \in SessionIds :
            (sessions'[id].status = "completed"
               /\ sessions[id].status # "completed") =>
                  sessions[id].status = "running"]_vars

\* C11 witness: complete_crawl_session ran to its end on an aborted
\* session (its write reached the document: updated_at is the time of the
\* call) and the session is still aborted, without a completion time.
C11_Witness ==
    /\ slast.op = "complete_crawl_session"
    /\ now > 0
    /\ sessions[slast.id].status = "aborted"
    /\ sessions[slast.id].updated_at = now
    /\ sessions[slast.id].completed_at = NoTime

\* C12: complete_crawl_session on a running session returns true and
\* leaves, in one step, the session completed with completed_at = now and
\* the parent site's monitoring.last_crawl_time = now.
C12_CompleteAdvancesSite ==
    [][\A c \in completeCalls :
          (/\ slast'.op = "complete_crawl_session"
           /\ complete_crawl_session_update(c)
           /\ sessions[c.id].status = "running") =>
              /\ slast'.ret = TRUE
              /\ sessions'[c.id].status = "completed"
              /\ sessions'[c.id].completed_at = now
              /\ siteLastCrawl'[c.site_id] = now]_vars

\* ------------------------------------------------------------ alert claims
\* C13: in every state, no two alerts with status active have the same
\* fingerprint (alert_hash), whatever the interleaving of create_alert
\* calls.
C13_OneActivePerFingerprint ==
    \A a, b \in AlertIds :
        (/\ alerts[a].status = "active"
         /\ alerts[b].status = "active"
         /\ alerts[a].alert_hash = alerts[b].alert_hash) => a = b

\* C14: a create_alert call that runs with no other create in flight and
\* finds an active alert with its fingerprint returns that alert's id and
\* leaves its occurrence_count one higher and its last_seen at the time of
\* the call.
C14_DuplicateCounts ==
    [][\A c \in Callers :
          (/\ alast'.op = "create_alert"
           /\ create_alert_write(c)
           /\ createCalls[c].existing # 0
           /\ \A o \in Callers \ {c} : createCalls[o] = NoCreate
           /\ alerts[createCalls[c].existing].status = "active") =>
              LET e == createCalls[c].existing
              IN  /\ alast'.ret = e
                  /\ alerts'[e].occurrence_count =
                        alerts[e].occurrence_count + 1
                  /\ alerts'[e].last_seen = now]_vars

\* An unexpired suppression covers the alert type.
CoveredBySuppression(alert_type) ==
    suppressions[alert_type] # NoTime /\ now < suppressions[alert_type]

C16_ResolveOnlyActive ==
    [][\A id \in AlertIds :
          (alast'.op = "resolve_alert" /\ resolve_alert(id, "fixed")) =>
             IF alerts[id].status = "active"
             THEN /\ alast'.ret = TRUE
                  /\ alerts'[id].status = "resolved"
                  /\ alerts'[id].resolved_at = now
                  /\ alerts'[id].resolution = "fixed"
             ELSE alast'.ret = FALSE /\ alerts' = alerts]_vars

\* C17: escalate_unresolved_alerts(h) returns exactly the active alerts of
\* severity critical or high created more than h hours ago and never
\* escalated, sets their escalated_at to now and changes no other alert.
C17_EscalateOnce ==
    [][\A h \in HoursChoices :
          (/\ alast'.op = "escalate_unresolved_alerts"
           /\ escalate_unresolved_alerts(h)) =>
              LET due == {id \in AlertIds :
                            /\ alerts[id].status = "active"
                            /\ alerts[id].severity \in {"critical", "high"}
                            /\ alerts[id].created_at < now - h * 3600
                            /\ alerts[id].escalated_at = NoTime}
              IN  /\ alast'.ret = due
                  /\ \A id \in due : alerts'[id].escalated_at = now
                  /\ \A id \in AlertIds \ due :
                        alerts'[id] = alerts[id]]_vars

\* ------------------------------------------------------------ change claims
\* The priority rules as the specification states them.
DerivedPriority(change_type, context) ==
    CASE change_type = "deleted" -> "high"
      [] change_type = "new" ->
            IF context.author_known \/ context.philosophical_content
            THEN "high" ELSE "medium"
      [] change_type = "modified" ->
            IF context.content_change_ratio > 50 THEN "high"
            ELSE IF context.content_change_ratio > 10 THEN "medium"
            ELSE "low"

\* C18: the change stored by record_content_change carries the priority
\* that the rules give for its change_type and context.
C18_PriorityDerived ==
    [][\A page_id \in Pages, change_type \in CHANGE_TYPES,
          context \in Contexts, kwargs \in PriorityKwargs :
          (/\ clast'.op = "record_content_change"
           /\ record_content_change(
                  ContentChange(page_id, change_type, context, kwargs))) =>
              changes'[clast'.ret].priority =
                  DerivedPriority(change_type, context)]_vars

\* The rank of a priority: critical first
PriorityRank(p) ==
    CASE p = "critical" -> 4 [] p = "high" -> 3 [] p = "medium" -> 2
      [] p = "low" -> 1

\* C19: what get_unnotified_changes returns holds only changes with
\* notification_sent = false, ordered by priority from critical down to
\* low and, within one priority, by detected_at ascending.
C19_UnnotifiedOrder ==
    [][\A priority \in {NoStr, "high"} :
          (/\ clast'.op = "get_unnotified_changes"
           /\ get_unnotified_changes(priority)) =>
              LET ret == clast'.ret
              IN  /\ \A i \in DOMAIN ret :
                        changes[ret[i]].notification_sent = FALSE
                  /\ \A i, j \in DOMAIN ret :
                        i < j =>
                          \/ PriorityRank(changes[ret[i]].priority) >
                               PriorityRank(changes[ret[j]].priority)
                          \/ /\ changes[ret[i]].priority =
                                   changes[ret[j]].priority
                             /\ changes[ret[i]].detected_at <=
                                   changes[ret[j]].detected_at]_vars

\* ------------------------------------------------------------ breaker claims

\* C20: a step taken while the breaker is closed takes it out of the
\* closed state exactly when it brings the number of consecutive failures
\* of the wrapped operation (failed invocations since the last successful
\* one) to failure_threshold; and whenever a step leaves the breaker
\* closed, fewer than failure_threshold such failures have occurred.
C20_OpensAtThreshold ==
    [][/\ breaker.state = "closed" =>
            ((breaker'.state # "closed") <=>
                (streak < failure_threshold
                   /\ streak' >= failure_threshold))
       /\ breaker'.state = "closed" => streak' < failure_threshold]_vars

\* C21: while the breaker is open and less than recovery_timeout has
\* passed since it opened, the wrapped operation is not invoked (a caller
\* whose failure was the previous step, so that the breaker was already
\* open when it went to sleep, does not invoke the operation again) and
\* every call that arrives is rejected with a connection error and no
\* invocation; the first call that arrives once recovery_timeout has
\* passed since it opened puts the breaker in half_open and is admitted.
C21_OpenRejectsThenHalfOpen ==
    [][/\ (breaker.state = "open" /\ now - openedAt < recovery_timeout) =>
            /\ \A c \in Callers, outcome \in {"ok", "transient", "fatal"} :
                  (blast.op = "_with_retry_sleep" /\ blast.caller = c) =>
                      ~ _with_retry_attempt(c, outcome)
            /\ \A c \in Callers :
                  _with_retry_begin(c) =>
                      /\ blast'.op = "_with_retry"
                      /\ blast'.raised = "ConnectionError"
                      /\ blast'.invocations = 0
       /\ (breaker.state = "open" /\ now - openedAt >= recovery_timeout) =>
            \A c \in Callers :
                _with_retry_begin(c) =>
                    /\ breaker'.state = "half_open"
                    /\ blast'.op = "_with_retry_begin"]_vars

\* C22: an invocation that ends while the breaker is half-open either
\* succeeds, and then the breaker closes exactly when this is the
\* success_threshold-th success since it became half-open, with the failure
\* count reset to zero, and stays half-open otherwise; or fails, and then
\* the breaker is open again with its recovery window starting now.
C22_HalfOpenClosesOrReopens ==
    [][breaker.state = "half_open" =>
          \A c \in Callers, outcome \in {"ok", "transient", "fatal"} :
              _with_retry_attempt(c, outcome) =>
                  IF outcome = "ok"
                  THEN /\ (breaker'.state = "closed") <=>
                              (halfOpenSuccesses' >= success_threshold)
                       /\ breaker'.state = "closed" =>
                              breaker'.failure_count = 0
                       /\ breaker'.state \in {"closed", "half_open"}
                  ELSE /\ breaker'.state = "open"
                       /\ breaker'.last_failure_time = now
                       /\ openedAt' = now
                       /\ ~ can_execute(breaker', now).ok]_vars

\* C22 witness: the breaker has been open, became half-open and was closed
\* by the third success in a row.
C22_Witness ==
    /\ openedAt # NoTime
    /\ breaker.state = "closed"
    /\ breaker.failure_count = 0
    /\ halfOpenSuccesses = success_threshold
    /\ blast.op = "_with_retry"
    /\ blast.raised = NoStr

\* The wait the retry policy prescribes before the (k+1)-th retry.
C23_Wait(k) == IF 2 ^ k <= 60 THEN 2 ^ k ELSE 60

\* C23: the operation is invoked again only after an invocation that
\* raised a transient transport error, and at most max_retries times; the
\* wait before the (k+1)-th retry is min(1 * 2^k, 60) seconds; any other
\* error ends the call at once with a RepositoryError; a transient error on
\* the last allowed invocation ends it with a ConnectionError after
\* max_retries + 1 invocations.
C23_RetryPolicy ==
    [][\A c \in Callers, outcome \in {"ok", "transient", "fatal"} :
          _with_retry_attempt(c, outcome) =>
              LET k == calls[c].attempt
              IN  /\ k <= max_retries
                  /\ (blast'.op = "_with_retry_sleep") <=>
                         (outcome = "transient" /\ k < max_retries)
                  /\ blast'.op = "_with_retry_sleep" =>
                         /\ blast'.delay = C23_Wait(k)
                         /\ calls'[c] = [phase |-> "running",
                                         attempt |-> k + 1]
                  /\ blast'.op # "_with_retry_sleep" =>
                         /\ blast'.op = "_with_retry"
                         /\ calls'[c] = NoAttempt
                         /\ blast'.invocations = k + 1
                         /\ blast'.raised =
                                CASE outcome = "ok" -> NoStr
                                  [] outcome = "fatal" -> "RepositoryError"
                                  [] OTHER -> "ConnectionError"
                         /\ outcome = "transient" =>
                                blast'.invocations = max_retries + 1]_vars

\* C23 witness: a call gave up with a ConnectionError after its fourth
\* invocation.
C23_Witness ==
    /\ blast.op = "_with_retry"
    /\ blast.raised = "ConnectionError"
    /\ blast.invocations = max_retries + 1

\* What stripping the '$' keys at every nesting depth leaves of a value.
RECURSIVE C24_Stripped(_)
C24_Stripped(x) ==
    IF x.t = "d"
    THEN Dict([k \in {j \in DOMAIN x.d : j \notin OperatorKeys} |->
                 C24_Stripped(x.d[k])])
    ELSE IF x.t = "l"
    THEN List([i \in DOMAIN x.l |-> C24_Stripped(x.l[i])])
    ELSE x

\* C24: a call of the sanitizer on a map returns the map without any key
\* that begins with '$', at every nesting depth (in nested maps and in maps
\* that are elements of lists), and with every other key and value
\* unchanged; a call on anything else raises a validation error.
C24_SanitizedEverywhere ==
    sanOut.called =>
        IF sanIn.t = "d"
        THEN sanOut = [called |-> TRUE, raised |-> NoStr,
                       value |-> C24_Stripped(sanIn)]
        ELSE sanOut = [called |-> TRUE, raised |-> "ValidationError"]

\* C25: a call of update_page_and_clear_task for a page, with the query
\* that selects that page's tasks, never leaves the page updated while a
\* task of the page remains, and never leaves a task of the page deleted
\* while the page is not updated.
C25_PageAndTasksTogether ==
    [][\A page_id \in TxPages,
          fault \in {"none", "update_one", "delete_one"} :
          update_page_and_clear_task(page_id, page_id, fault) =>
              LET tasksOf(q) == {i \in TxTaskIds : q[i] # Absent
                                    /\ q[i].page_id = page_id}
                  updated == pageDocs'[page_id] # pageDocs[page_id]
              IN  /\ ~ (updated /\ tasksOf(queueDocs') # {})
                  /\ ~ (tasksOf(queueDocs') # tasksOf(queueDocs)
                          /\ ~updated)]_vars

\* The archive objects a run has put in the bucket.
C26_ObjectsOf(run) == {o \in s3objects : o.key[1] = run}

\* C26: when a run of archive_old_documents that really archives (not a
\* dry run) ends without an upload failure, every document that was older
\* than the cutoff when it began is in exactly one archive object of the
\* run, each object holds at most batch_size documents, exactly those
\* documents have been removed (as many as the run reports), and no
\* document older than the cutoff remains.
C26_ArchivesEveryOldDocument ==
    (archive.phase = "done" /\ ~archive.failed /\ ~dry_run) =>
        /\ \A d \in archive.eligible :
              Cardinality({o \in C26_ObjectsOf(archive.run) :
                             \E i \in DOMAIN o.docs : o.docs[i] = d}) = 1
        /\ \A o \in C26_ObjectsOf(archive.run) : Len(o.docs) <= batch_size
        /\ Cardinality(C26_ObjectsOf(archive.run)) * batch_size
              >= Cardinality(archive.eligible)
        /\ archive.archived_count = Cardinality(archive.eligible)
        /\ \A d \in DocIds : archDocs[d] # "old"

\* C27: a turn of the archival loop removes a document only if an archive
\* object of this run that holds it is in the bucket; a turn whose upload
\* fails removes nothing and ends the run, so that neither that batch nor a
\* later one is removed.
C27_DeleteOnlyAfterUpload ==
    [][\A upload_ok \in BOOLEAN :
          archive_old_documents_batch(upload_ok) =>
              /\ \A d \in DocIds :
                    (archDocs[d] # "absent" /\ archDocs'[d] = "absent") =>
                        \E o \in s3objects' :
                            /\ o.key[1] = archive.run
                            /\ \E i \in DOMAIN o.docs : o.docs[i] = d
              /\ (~upload_ok /\ ~dry_run
                    /\ _get_batches(archDocs, archive.skip) # <<>>) =>
                        /\ archDocs' = archDocs
                        /\ s3objects' = s3objects
                        /\ archive'.phase = "done"]_vars

\* C27 witness: a run ended by a failed upload after an earlier batch of it
\* had been archived and removed; documents older than the cutoff remain.
C27_Witness ==
    /\ archive.phase = "done"
    /\ archive.failed
    /\ archive.archived_count > 0
    /\ \E d \in DocIds : archDocs[d] = "absent"
    /\ \E d \in DocIds : archDocs[d] = "old"

\* C28: a reload that returns True leaves the value it loaded as the live
\* configuration and has invoked every registered callback, in
\* registration order, exactly once with that value; and the live
\* configuration changes in no other step but a runtime update, so that
\* every read until the next successful reload or runtime update returns
\* that value.
C28_ReloadSwapsAndNotifiesAll ==
    [][/\ \A c \in Callers :
            (reload_configuration_commit(c) /\ mlast'.ret) =>
                /\ _config' = reloads[c].new_config.value
                /\ mlast'.notified =
                      [i \in DOMAIN _change_callbacks |->
                          <<_change_callbacks[i],
                            reloads[c].new_config.value>>]
       /\ _config' # _config =>
            /\ mlast'.op \in {"reload_configuration",
                              "update_runtime_config"}
            /\ mlast'.op = "reload_configuration" => mlast'.ret]_vars

\* C28 witness: a reload returned True after replacing the live value by a
\* different one and notifying two callbacks, one of which raised.
C28_Witness ==
    /\ mlast.op = "reload_configuration"
    /\ mlast.ret
    /\ Len(mlast.notified) = 2
    /\ \E i \in 1..2 : mlast.notified[i][1] = "bad_named"
    /\ _config = 2
    /\ mlast.notified[1][2] = 2

\* C29: a reload whose load or whose validation fails returns False, leaves
\* the live configuration as it was and invokes no callback.
C29_FailedReloadKeepsConfig ==
    [][\A c \in Callers :
          /\ (reload_configuration_load(c)
                /\ configFile.state = "unloadable") =>
                 /\ mlast'.op = "reload_configuration"
                 /\ ~mlast'.ret
                 /\ mlast'.notified = <<>>
                 /\ _config' = _config
          /\ (reload_configuration_commit(c)
                /\ reloads[c].new_config.state = "invalid") =>
                 /\ mlast'.op = "reload_configuration"
                 /\ ~mlast'.ret
                 /\ mlast'.notified = <<>>
                 /\ _config' = _config]_vars

\* C29 witness: a reload failed in validation while callbacks were
\* registered and the files held a value other than the live one.
C29_Witness ==
    /\ mlast.op = "reload_configuration"
    /\ mlast.failed = "validate"
    /\ ~mlast.ret
    /\ Len(_change_callbacks) > 0
    /\ _config = 1
    /\ environment = "dev"

\* C30: when a reload has loaded and validated a new value, every
\* registered callback is invoked with it, whatever the callbacks before it
\* did, the new value stays the live configuration, and the reload returns
\* True.
C30_CallbackFailureIsolated ==
    [][\A c \in Callers :
          (reload_configuration_commit(c)
             /\ reloads[c].new_config.state # "invalid") =>
              /\ Len(mlast'.notified) = Len(_change_callbacks)
              /\ _config' = reloads[c].new_config.value
              /\ mlast'.ret]_vars

\* ------------------------------------------------------------ later claims
\* C31: a runtime update in the production environment, and one whose
\* merged result is not a valid configuration, raises
\* ConfigurationUpdateError, leaves the live configuration and the
\* registered callbacks as they were, and invokes no callback.
C31_RefusedUpdateChangesNothing ==
    [][\A updates \in UpdateChoices :
          (update_runtime_config(updates)
             /\ (environment = "prod" \/ ~updates.valid)) =>
              /\ _config' = _config
              /\ _change_callbacks' = _change_callbacks
              /\ mlast'.raised = "ConfigurationUpdateError"
              /\ ~mlast'.ret
              /\ mlast'.notified = <<>>]_vars

\* C31 witness: in production, with a callback registered, an update to a
\* valid value other than the live one was refused.
C31_Witness ==
    /\ environment = "prod"
    /\ mlast.op = "update_runtime_config"
    /\ mlast.failed = "production"
    /\ mlast.updates.valid
    /\ mlast.updates.value # _config
    /\ Len(_change_callbacks) > 0

\* C32: no two pages share (site_id, normalized URL), and a create_page that
\* ends while a page of the site with the same normalized URL exists has
\* raised DuplicateResourceError and inserted nothing.
C32_NoDuplicatePages ==
    /\ \A i, j \in 1..Len(pageColl) :
          (pageColl[i].site_id = pageColl[j].site_id /\
           pageColl[i].url = pageColl[j].url) => i = j
    /\ (plast.op = "create_page" /\ plast.existed) =>
          (plast.raised = "DuplicateResourceError" /\ ~plast.inserted)

\* C33: there is at most one content-index entry per page_id, and an
\* upsert that ends while the page has an entry has inserted nothing and
\* returned the id of the page's entry.
C33_OneEntryPerPage ==
    /\ \A i, j \in 1..Len(indexColl) :
          indexColl[i].page_id = indexColl[j].page_id => i = j
    /\ (ilast.op = "upsert_content_index" /\ ilast.existed) =>
          (~ilast.inserted /\ indexColl[ilast.ret].page_id = ilast.page_id)

\* C34: every pass of run_migrations takes a registered version above the
\* version that was current when the run began; it either adds the
\* migration's effects and its ledger entry together and goes on, or adds
\* neither and ends the run with the exception.  A run with no target that
\* ends without an exception has applied exactly the registered versions
\* above that current version, in ascending order.
C34_RunsPendingInOrder ==
    [][/\ \A c \in Callers :
            (runs[c].phase = "running" /\
             glast'.op \in {"run_migrations", "run_migrations_step"} /\
             glast'.caller = c) =>
               LET v == Head(runs[c].todo)
               IN  /\ v \in Registered
                   /\ v > runs[c].current_version
                   /\ IF glast'.raised = NoStr
                      THEN /\ schema' = schema \cup {v}
                           /\ ledger' = ledger \cup {v}
                           /\ v \notin ledger
                      ELSE /\ schema' = schema
                           /\ ledger' = ledger
                           /\ runs'[c].phase = "idle"
                           /\ glast'.op = "run_migrations"
       /\ (glast'.op = "run_migrations" /\ glast'.raised = NoStr /\
           glast'.target_version = NoTarget) =>
             LET done == glast'.applied
             IN  /\ {done[i] : i \in 1..Len(done)} =
                       {m \in Registered : m > glast'.current_version}
                 /\ \A i, j \in 1..Len(done) : i < j => done[i] < done[j]]_vars

\* C34 witness: a run that began above version 0 has applied two
\* migrations and ended.
C34_Witness ==
    /\ glast.op = "run_migrations"
    /\ glast.raised = NoStr
    /\ glast.target_version = NoTarget
    /\ glast.current_version >= 1
    /\ Len(glast.applied) >= 2

\* C35: rollback_migration(v) for a version v of the ledger runs the down
\* step of v and of nothing else, and unless that step raises it takes v's
\* effects and v's ledger entry away and leaves every other entry.
C35_RollbackExactlyOne ==
    [][(glast'.op = "rollback_migration" /\ glast' # glast /\
        glast'.version \in ledger) =>
          /\ glast'.ran_down = <<glast'.version>>
          /\ glast'.raised = NoStr =>
                /\ ledger' = ledger \ {glast'.version}
                /\ schema' = schema \ {glast'.version}
          /\ glast'.raised # NoStr => (ledger' = ledger /\ schema' = schema)]_vars

\* C36: a task's status changes only from pending to processing in a
\* dequeue, from processing to completed in complete_task, from processing
\* to pending or failed in fail_task, and from failed to pending in
\* retry_failed_tasks; and a fail_task on a task that is pending, completed
\* or failed leaves its status, retry_count and scheduled_at as they were.
C36_StatusEdges ==
    [][/\ \A id \in TaskIds :
            (Present(id) /\ tasks'[id].status # tasks[id].status) =>
               \/ /\ tasks[id].status = "pending"
                  /\ tasks'[id].status = "processing"
                  /\ last'.op = "dequeue_next_task"
               \/ /\ tasks[id].status = "processing"
                  /\ tasks'[id].status = "completed"
                  /\ last'.op = "complete_task"
               \/ /\ tasks[id].status = "processing"
                  /\ tasks'[id].status \in {"pending", "failed"}
                  /\ last'.op = "fail_task"
               \/ /\ tasks[id].status = "failed"
                  /\ tasks'[id].status = "pending"
                  /\ last'.op = "retry_failed_tasks"
       /\ (/\ last'.op = "fail_task"
           /\ last'.id \in TaskIds
           /\ Present(last'.id)
           /\ tasks[last'.id].status \in {"pending", "completed", "failed"}) =>
             /\ tasks'[last'.id].status = tasks[last'.id].status
             /\ tasks'[last'.id].retry_count = tasks[last'.id].retry_count
             /\ tasks'[last'.id].scheduled_at = tasks[last'.id].scheduled_at]_vars

\* C36 witness: fail_task has written to a pending task, next to a task
\* that a dequeue has made processing.
C36_Witness ==
    /\ last.op = "fail_task"
    /\ last.id \in TaskIds
    /\ Present(last.id)
    /\ tasks[last.id].status = "pending"
    /\ tasks[last.id].updated_at = now
    /\ now > tasks[last.id].created_at
    /\ \E other \in TaskIds : Present(other) /\ tasks[other].status = "processing"

C39_LastChangeReloaded ==
    <>[]((configFile.state = "ok" /\ writes > 0) => _config = configFile.value)

\* C40: the filter and the update document a repository method builds
\* reach the backend as built.  complete_task changes the collection as its
\* own filter and $set document say and returns whether a task was
\* modified; purge_completed_tasks deletes the completed tasks whose
\* completed_at is before the cutoff and returns how many they were.
C40_BuiltDocumentsReachBackend ==
    [][/\ last'.op = "complete_task" =>
            \E result \in {"result", "not_serializable"} :
               LET r == BackendUpdateOne(tasks,
                            ("_id" :> Val(last'.id)) @@
                            ("status" :> Val("processing")),
                            [status |-> Val("completed"),
                             completed_at |-> Val(now),
                             result |-> Val(result),
                             last_update |-> Val(now),
                             updated_at |-> Val(now)])
               IN  /\ tasks' = r.coll
                   /\ last'.ret = (r.modified_count > 0)
       /\ last'.op = "purge_completed_tasks" =>
            LET old == {id \in TaskIds :
                          /\ Present(id)
                          /\ tasks[id].status = "completed"
                          /\ tasks[id].completed_at # NoTime
                          /\ tasks[id].completed_at <
                                now - timedelta_hours(last'.hours_old)}
            IN  /\ tasks' = [id \in TaskIds |->
                               IF id \in old THEN NoTask ELSE tasks[id]]
                /\ last'.ret = Cardinality(old)]_vars

====
